---- MODULE Spec2Model ----
(***************************************************************************)
(* A model of the live voice session orchestrator of voice_flow:           *)
(*   - LiveAudioConsumer (voice_flow/live_consumer.py): the client         *)
(*     message handler, the backend receiver task, the silence monitor     *)
(*     and the completion procedure;                                       *)
(*   - send_webhook (voice_flow/tasks.py): the Celery delivery task;       *)
(*   - the views that write the same session record (voice_flow/views.py). *)
(*                                                                         *)
(* Python values are modelled as strings ("None" is Python's None, "" the  *)
(* empty string), dicts as functions whose DOMAIN is the set of keys,      *)
(* texts that are parsed as sequences of tokens.  Times are integer        *)
(* milliseconds of the event loop's monotonic clock.                       *)
(***************************************************************************)
EXTENDS Integers, Sequences, FiniteSets, TLC

(***************************************************************************)
(* Bounds of the model                                                     *)
(***************************************************************************)
\* the clock stops advancing here
MaxTime == 9000
\* client audio frames arrive until this time when the clock advances
MaxAudioTime == 250
\* client audio frames received in one connection
MaxFrames == 1
\* backend audio chunks received in one connection
MaxAIChunks == 1
\* the same, where only the audio queues are exercised
MaxQueueFrames == 6
MaxQueueChunks == 3
\* entries of conversation_history
MaxHistory == 1
\* client control messages handled in one connection
MaxControl == 1
\* calls of the public finalize endpoint
MaxFinalize == 1
\* delivery triggers (send_webhook.delay calls)
MaxTriggers == 1
\* completions the backend receiver starts (complete_form calls, completion phrases)
MaxGeminiCompletions == 1
\* tool calls kept in call_log
MaxLog == 2
\* disconnects of one connection
MaxDisconnects == 2
\* calls of generate_webhook_signature
MaxSignCalls == 2
\* client frames of a session that goes on sending audio
MaxStreamFrames == 2
MaxMarkStarted == 2
MaxRecordTime == 1250

(***************************************************************************)
(* Program constants                                                       *)
(***************************************************************************)
\* live_consumer.py:58  self._silence_threshold_abs = 120
SilenceThresholdAbs == 120
\* live_consumer.py:59  self._silence_timeout_ms = 6500
SilenceTimeoutMs == 6500
\* live_consumer.py:416  await asyncio.sleep(0.25)
PollMs == 250
\* live_consumer.py:432  ai_gap_ms > 1500
AIGapMs == 1500
\* live_consumer.py:437  wait_for(self._summary_event.wait(), timeout=2.0)
GraceMs == 2000
\* live_consumer.py:229  asyncio.Queue(maxsize=5)
OutQueueMax == 5
\* tasks.py:17  @shared_task(bind=True, max_retries=3)
CeleryMaxRetries == 3
\* settings.py:201  'WEBHOOK_RETRY_ATTEMPTS': int(os.getenv('WEBHOOK_RETRY_ATTEMPTS', 3))
WebhookRetryAttempts == 3
\* tasks.py:129  countdown = 300 * (3 ** (attempt_number - 1))
BackoffBase == 300
\* array('h'): the smallest 16-bit sample
Int16Min == -32768

\* the clock's grain: half a polling interval, so that a poll can fall
\* strictly between two multiples of the polling interval after an event
TimeStep == PollMs \div 2

(***************************************************************************)
(* Python values and dicts                                                 *)
(***************************************************************************)
NoneVal == "None"
EmptyStr == ""

\* the values a field can take in the model
Values == {NoneVal, EmptyStr, "7", "8"}

\* {}
EmptyDict == [k \in {} |-> NoneVal]

\* d[k] = v
DictSet(d, k, v) == [x \in (DOMAIN d) \cup {k} |-> IF x = k THEN v ELSE d[x]]

\* d.update(e)
DictUpdate(d, e) ==
    [x \in (DOMAIN d) \cup (DOMAIN e) |-> IF x \in DOMAIN e THEN e[x] ELSE d[x]]

\* d.get(k)
DictGet(d, k) == IF k \in DOMAIN d THEN d[k] ELSE NoneVal

\* bool(d) of a dict
Truthy(d) == DOMAIN d # {}

\* len([v for v in d.values() if v is not None])
NonNullCount(d) == Cardinality({k \in DOMAIN d : d[k] # NoneVal})

\* all dicts over the keys K with values in V
Dicts(K, V) == UNION {[S -> V] : S \in SUBSET K}

(***************************************************************************)
(* The form: VoiceFormConfig.fields of the session's form                  *)
(***************************************************************************)
FormFields ==
    << [name |-> "satisfaction", type |-> "number", required |-> TRUE] >>

FieldNames == {FormFields[i].name : i \in DOMAIN FormFields}

\* form_config['total_fields'] = len(form.fields)
TotalFields == Len(FormFields)

\* a name no field of the form has
OtherName == "nickname"

\* the field names a backend tool call or an extraction can carry
CarriedNames == FieldNames \cup {OtherName}

\* the attributes of a VoiceFormConfig instance (models.py:54-92)
FormConfigAttrs ==
    {"form_id", "api_key", "name", "description", "fields", "ai_prompt",
     "callback_url", "callback_method", "webhook_secret", "success_message",
     "error_message", "settings", "created_at", "updated_at", "is_active"}

(***************************************************************************)
(* _get_ci: the case-insensitive getter of tool-call arguments             *)
(***************************************************************************)
\* str(k).lower() of the argument keys the model uses
Lower(k) ==
    CASE k = "fieldName" -> "fieldname"
      [] k = "Field_Name" -> "field_name"
      [] k = "functionCallJsonText" -> "functioncalljsontext"
      [] k = "Function_Call_Json_Text" -> "function_call_json_text"
      [] k = "summaryText" -> "summarytext"
      [] OTHER -> k

\* lower_map = {str(k).lower(): v for k, v in mapping.items()}
\* (the argument dicts of the model hold no two keys with one lower-case form)
LowerMap(mapping) ==
    [l \in {Lower(k) : k \in DOMAIN mapping} |->
        mapping[CHOOSE k \in DOMAIN mapping : Lower(k) = l]]

\* the second loop of _get_ci: the first key whose lower-case form maps to a
\* value that is not None
RECURSIVE GetCILower(_, _, _, _)
GetCILower(lm, keys, i, none) ==
    IF i > Len(keys) THEN none
    ELSE IF Lower(keys[i]) \in DOMAIN lm /\ lm[Lower(keys[i])] # none
         THEN lm[Lower(keys[i])]
         ELSE GetCILower(lm, keys, i + 1, none)

\* the first loop of _get_ci: the first key present as it is written wins,
\* whatever its value
RECURSIVE GetCIExact(_, _, _, _)
GetCIExact(mapping, keys, i, none) ==
    IF i > Len(keys) THEN GetCILower(LowerMap(mapping), keys, 1, none)
    ELSE IF keys[i] \in DOMAIN mapping THEN mapping[keys[i]]
         ELSE GetCIExact(mapping, keys, i + 1, none)

\* _get_ci(mapping, *keys); none is the model's None of the values' type
GetCI(mapping, keys, none) == GetCIExact(mapping, keys, 1, none)

(***************************************************************************)
(* json.loads on a text given as its sequence of tokens                    *)
(***************************************************************************)
\* None and '' of a text argument
NoneText == << "\\None" >>
EmptyText == << >>

JsonPunct == {"{", "}", "[", "]", ":", ",", "="}

\* a scalar token's value: null is None
JsonScalar(tok) == IF tok = "null" THEN NoneVal ELSE tok

JsonError == [ok |-> FALSE, isdict |-> FALSE, val |-> EmptyDict]

\* the members of an object from token i on; a repeated key keeps its last value
RECURSIVE ParseMembers(_, _, _)
ParseMembers(t, i, acc) ==
    IF i + 3 > Len(t) THEN JsonError
    ELSE IF t[i] \notin JsonPunct /\ t[i + 1] = ":" /\ t[i + 2] \notin JsonPunct
         THEN LET acc2 == DictSet(acc, t[i], JsonScalar(t[i + 2]))
              IN  IF t[i + 3] = "}"
                  THEN IF i + 3 = Len(t)
                       THEN [ok |-> TRUE, isdict |-> TRUE, val |-> acc2]
                       ELSE JsonError
                  ELSE IF t[i + 3] = ","
                       THEN ParseMembers(t, i + 4, acc2)
                       ELSE JsonError
         ELSE JsonError

\* json.loads(text): ok is FALSE when it raises; isdict tells a dict from a
\* list or a scalar
json_loads(t) ==
    IF t = NoneText THEN JsonError
    ELSE IF Len(t) = 0 THEN JsonError
    ELSE IF Len(t) = 1
         THEN IF t[1] \in JsonPunct THEN JsonError
              ELSE [ok |-> TRUE, isdict |-> FALSE, val |-> EmptyDict]
    ELSE IF t[1] = "["
         THEN IF t[Len(t)] = "]" /\ Len(t) <= 3
                 /\ \A i \in 2..(Len(t) - 1) : t[i] \notin JsonPunct
              THEN [ok |-> TRUE, isdict |-> FALSE, val |-> EmptyDict]
              ELSE JsonError
    ELSE IF t[1] = "{"
         THEN IF Len(t) = 2
              THEN IF t[2] = "}"
                   THEN [ok |-> TRUE, isdict |-> TRUE, val |-> EmptyDict]
                   ELSE JsonError
              ELSE ParseMembers(t, 2, EmptyDict)
    ELSE JsonError

(***************************************************************************)
(* The speech-energy detector of receive                                   *)
(***************************************************************************)
Abs(v) == IF v < 0 THEN -v ELSE v

RECURSIVE SumSeq(_)
SumSeq(s) == IF s = << >> THEN 0 ELSE Head(s) + SumSeq(Tail(s))

\* sum(1 if v == -32768 else abs(v) for v in pcm)
CodeAbsSum(pcm) ==
    SumSeq([i \in DOMAIN pcm |-> IF pcm[i] = Int16Min THEN 1 ELSE Abs(pcm[i])])

\* avg_abs >= self._silence_threshold_abs, with avg_abs = sum / len(pcm)
IsSpeechFrame(pcm) == CodeAbsSum(pcm) >= SilenceThresholdAbs * Len(pcm)

(***************************************************************************)
(* is_survey_complete, on a text given as its sequence of words            *)
(***************************************************************************)
\* text.lower(), word by word
LowerWord(w) ==
    CASE w = "Thank" -> "thank"
      [] w = "Survey" -> "survey"
      [] w = "Hello" -> "hello"
      [] OTHER -> w

completion_phrases ==
    << << "survey", "complete" >>,
       << "survey", "complere" >>,
       << "thank", "you", "!", "survey" >>,
       << "that", "completes" >>,
       << "all", "done" >> >>

\* phrase in text_lower, at word boundaries
ContainsPhrase(text, phrase) ==
    \E i \in 0..(Len(text) - Len(phrase)) :
        \A j \in 1..Len(phrase) : LowerWord(text[i + j]) = phrase[j]

is_survey_complete(text) ==
    \E p \in DOMAIN completion_phrases :
        ContainsPhrase(text, completion_phrases[p])

(***************************************************************************)
(* State                                                                   *)
(***************************************************************************)
VARIABLES
    \* ---- the consumer instance (LiveAudioConsumer.connect, lines 48-67)
    collected_data,             \* self.collected_data
    conversation_history,       \* self.conversation_history
    summary_event,              \* self._summary_event.is_set()
    speech_detected,            \* self._speech_detected
    last_sound,                 \* self._last_sound_monotonic
    last_client_audio,          \* self._last_client_audio_monotonic
    last_ai_audio,              \* self._last_ai_audio_monotonic
    silence_monitor_triggered,  \* self._silence_monitor_triggered
    audio_out_queue,            \* self.audio_out_queue (client -> backend)
    audio_in_queue,             \* self.audio_in_queue (backend -> client)
    \* ---- the tasks of the connection
    hc,                         \* per task: where it is in handle_completion
    client_pc,                  \* the receive handler: idle, or suspended in put
    pending_frame,              \* the frame a suspended put holds
    mon_pc,                     \* _monitor_silence: sleep, grace, done
    monitor_wake,               \* when the monitor's sleep(0.25) ends
    grace_deadline,             \* when the monitor's wait_for times out
    gemini_task,                \* receive_audio_from_gemini: running, ended
    \* ---- the MagicLinkSession record and its WebhookLog records
    db_status,
    db_collected_data,
    db_conversation_history,
    db_completed_at,
    db_fields_completed,
    webhook_sent,
    webhook_response_code, webhook_sent_at,
    webhook_logs,
    \* ---- Celery
    celery_queue,               \* the send_webhook messages waiting for a worker
    task_outcome,               \* per trigger: how its last execution ended
    \* ---- the environment
    now,                        \* loop.time(), in ms
    callback_url,               \* form_config.callback_url
    db_record,                  \* the session's row: present, missing, expired, unreadable
    db_started_at,              \* MagicLinkSession.started_at
    db_duration_seconds,        \* MagicLinkSession.duration_seconds
    mark_started_calls,         \* the calls of MagicLinkSession.mark_started so far
    last_response,              \* the last text response handled and the text taken from it, if any
    genai_available,            \* GENAI_AVAILABLE (the google-genai import succeeded)
    \* ---- the connections to the session's websocket URL
    conn,                       \* per consumer instance: its lifecycle (see NoConn)
    \* ---- the calls of generate_webhook_signature and of verify_webhook
    sign_call,                  \* the calls of generate_webhook_signature: arguments and result
    sign_result,                \* what generate_webhook_signature returned last, if called
    verify_result,              \* the last call of verify_webhook, if any: arguments and result
    \* ---- history of the run, read by the properties only
    saved,                      \* per field name, the value of its last upsert by save_field
    call_log,                   \* the tool calls handled (kept by SpecTools only)
    frames_received,            \* the client audio frames handled, in order
    last_frame_at,              \* when the last of them arrived
    last_merge,                 \* the last completion's extraction and final fields, if any
    sent_to_backend,            \* the client frames handed to the backend, in order
    sent_to_browser,            \* the backend chunks sent to the client, in order
    ai_chunks,                  \* backend audio chunks handled
    control_handled,            \* client control messages handled
    finalize_calls,             \* calls of the finalize endpoint
    triggers,                   \* send_webhook.delay calls
    http_attempts,              \* per trigger: HTTP requests made
    completions,                \* handle_completion invocations, by trigger kind
    sent_completed,             \* 'completed' events sent to the client
    last_control                \* the type of the last control message handled

memVars == << collected_data, conversation_history, summary_event >>
silenceVars ==
    << speech_detected, last_sound, last_client_audio, last_ai_audio,
       silence_monitor_triggered >>
queueVars == << audio_out_queue, audio_in_queue >>
clientVars == << client_pc, pending_frame >>
monVars == << mon_pc, monitor_wake, grace_deadline >>
dbVars ==
    << db_status, db_collected_data, db_conversation_history, db_completed_at,
       db_fields_completed >>
hookVars ==
    << webhook_sent, webhook_response_code, webhook_sent_at, webhook_logs,
       celery_queue,
       task_outcome, triggers, http_attempts >>
countVars ==
    << frames_received, last_frame_at, last_merge, sent_to_backend,
       sent_to_browser, ai_chunks, control_handled, finalize_calls >>
recordVars == << db_started_at, db_duration_seconds, mark_started_calls >>
respVars == << last_response >>
connVars == << conn, db_record, genai_available, recordVars, respVars >>
signVars == << sign_call, sign_result, verify_result >>
\* the session: the consumer's streaming state, the record and Celery
streamVars ==
    << memVars, silenceVars, queueVars, clientVars, monVars, hc, gemini_task,
       dbVars, hookVars, now, callback_url, saved, call_log, countVars,
       completions, sent_completed, last_control >>

vars ==
    << memVars, silenceVars, queueVars, clientVars, monVars, hc,
       gemini_task, dbVars, hookVars, now, callback_url, saved, call_log,
       countVars, completions, sent_completed, last_control, connVars,
       signVars >>

\* None of a timestamp
NoTime == -1

\* None of duration_seconds
NoDuration == -1

\* the tasks that can run handle_completion: the consumer's message handler
\* (receive), the backend receiver (receive_audio_from_gemini) and the
\* silence monitor (_monitor_silence)
Tasks == {"client", "gemini", "monitor"}

TriggerIds == 1..(MaxTriggers + 1)

(***************************************************************************)
(* Inputs                                                                  *)
(***************************************************************************)
\* client audio frames: the 16-bit samples, and whether a stray byte follows
\* them (frombytes then raises and the detector is skipped)
Frames ==
    { [pcm |-> << 100, -139 >>, odd |-> FALSE],
      [pcm |-> << 120, -120 >>, odd |-> FALSE],
      [pcm |-> << Int16Min, Int16Min >>, odd |-> FALSE],
      [pcm |-> << 3000 >>, odd |-> TRUE] }

\* the arguments of a save_field call
SaveFieldArgs ==
    LET names == CarriedNames \cup {NoneVal, EmptyStr}
    IN  { [field_name |-> n, value |-> v] : n \in names, v \in Values }
        \cup { [fieldName |-> n, value |-> v] : n \in CarriedNames, v \in {"7"} }
        \cup { [name |-> n, value |-> v] : n \in CarriedNames, v \in {"8"} }
        \cup { [Field_Name |-> n, value |-> v] : n \in names, v \in {"7"} }
        \cup { [field_name |-> NoneVal, name |-> n, value |-> "8"] : n \in CarriedNames }
        \cup { [field_name |-> n] : n \in CarriedNames }
        \cup { [value |-> "7"] }

\* texts that are JSON objects
JsonObjectTexts ==
    { << "{", "}" >>,
      << "{", "satisfaction", ":", "7", "}" >>,
      << "{", "satisfaction", ":", "null", "}" >>,
      << "{", "nickname", ":", "8", "}" >>,
      << "{", "satisfaction", ":", "8", ",", "nickname", ":", "7", "}" >>,
      << "{", "satisfaction", ":", "7", ",", "satisfaction", ":", "8", "}" >> }

\* texts that are JSON, but no object
JsonOtherTexts == { << "[", "8", "]" >>, << "8" >>, << "[", "]" >> }

\* texts json.loads rejects: cut short, a missing value, a missing colon,
\* key=value, a trailing comma, data after the object, a bare brace
InvalidJsonTexts ==
    { << "{", "satisfaction", ":", "8" >>,
      << "{", "satisfaction", ":", "}" >>,
      << "{", "satisfaction", "8", "}" >>,
      << "satisfaction", "=", "8" >>,
      << "{", "satisfaction", ":", "8", ",", "}" >>,
      << "{", "satisfaction", ":", "8", "}", "}" >>,
      << "{" >> }

JsonTexts == JsonObjectTexts \cup JsonOtherTexts \cup InvalidJsonTexts

\* the arguments of a submit_form_summary call
SubmitArgs ==
    { [summary_text |-> << "ok" >>, function_call_json_text |-> t] : t \in JsonTexts }
    \cup { [summary_text |-> << "ok" >>, functionCallJsonText |-> t] :
             t \in {<< "{", "satisfaction", ":", "7", "}" >>, << "{" >>} }
    \cup { [summary_text |-> << "ok" >>, Function_Call_Json_Text |-> t] :
             t \in {<< "{", "nickname", ":", "8", "}" >>, << "{" >>} }
    \cup { [summary_text |-> << "ok" >>, function_call_json_text |-> t] :
             t \in {NoneText, EmptyText} }
    \cup { [function_call_json_text |-> NoneText,
            json |-> << "{", "satisfaction", ":", "7", "}" >>],
           [summary_text |-> << "ok" >>] }

\* assistant texts
AssistantTexts ==
    { << "Hello" >>, << "Thank", "you", "!", "Survey", "complete", "." >> }

\* what the text-mode extraction returns as fields ({} is also its fallback)
Extractions ==
    { EmptyDict,
      [satisfaction |-> "7"],
      [satisfaction |-> NoneVal],
      [nickname |-> "8"],
      [satisfaction |-> "8", nickname |-> "7"] }

\* the bodies sent to the finalize endpoint
FinalizeFields == { EmptyDict, [satisfaction |-> "7"], [nickname |-> NoneVal] }

\* what the callback endpoint does with a request: a status below 400, a
\* status of 400 or more, or no answer (timeout, network error)
Responses == {"200", "404", "500", "timeout"}

(***************************************************************************)
(* Initial states                                                          *)
(***************************************************************************)
NoFrame == [pcm |-> << >>, odd |-> FALSE]

\* connect (lines 48-67) and run_live_api up to the start of the four tasks
\* (lines 225-245), for a session that passed get_session_data; the record
\* is a MagicLinkSession with the defaults of models.py:105-133
InitConsumer ==
    /\ collected_data = EmptyDict
    /\ conversation_history = << >>
    /\ summary_event = FALSE
    /\ speech_detected = FALSE
    /\ last_sound = NoTime
    /\ last_client_audio = NoTime
    /\ last_ai_audio = NoTime
    /\ silence_monitor_triggered = FALSE
    /\ audio_out_queue = << >>
    /\ audio_in_queue = << >>
    /\ hc = [t \in Tasks |-> "idle"]
    /\ client_pc = "idle"
    /\ pending_frame = NoFrame
    /\ mon_pc = "sleep"
    /\ now = 0
    /\ monitor_wake = PollMs
    /\ grace_deadline = NoTime
    /\ gemini_task = "running"
    /\ saved = EmptyDict
    /\ call_log = << >>
    /\ frames_received = << >>
    /\ last_frame_at = NoTime
    /\ last_merge = << >>
    /\ sent_to_backend = << >>
    /\ sent_to_browser = << >>
    /\ ai_chunks = 0
    /\ control_handled = 0
    /\ finalize_calls = 0
    /\ completions = [t \in Tasks |-> 0]
    /\ sent_completed = 0
    /\ last_control = "none"

InitRecord ==
    /\ db_collected_data = EmptyDict
    /\ db_conversation_history = << >>
    /\ db_completed_at = NoTime
    /\ db_fields_completed = 0
    /\ webhook_sent = FALSE
    /\ webhook_response_code = NoneVal
    /\ webhook_sent_at = NoTime
    /\ webhook_logs = << >>
    /\ celery_queue = {}
    /\ task_outcome = [i \in TriggerIds |-> "none"]
    /\ triggers = 0
    /\ http_attempts = [i \in TriggerIds |-> 0]

\* the streaming tasks run_live_api starts (lines 242-245)
StreamTasks ==
    {"send_realtime", "receive_audio_from_gemini", "send_audio_to_browser",
     "_monitor_silence"}

\* the consumer instances of the model
Conns == {1, 2}

\* a consumer instance before its connect: no main task, no backend
\* connection, no queues, no streaming task; closes counts the times the
\* backend connection was closed, errors the 'error' events sent, died holds
\* the streaming tasks that ended by an exception
NoConn ==
    [stage |-> "none", main_task |-> "none", backend |-> "none",
     closes |-> 0, queues |-> FALSE,
     tasks |-> [t \in StreamTasks |-> "none"],
     errors |-> 0, disconnects |-> 0, died |-> {}]

\* a consumer instance whose run_live_api has started the four tasks
\* (lines 221-247)
StreamingConn ==
    [NoConn EXCEPT !.stage = "streaming", !.main_task = "running",
                   !.backend = "open", !.queues = TRUE,
                   !.tasks = [t \in StreamTasks |-> "running"]]

\* the consumer the session's handlers belong to is streaming
InitStreaming ==
    /\ conn = [c \in Conns |-> IF c = 1 THEN StreamingConn ELSE NoConn]
    /\ db_record = "present"
    /\ genai_available = TRUE

\* no signature was asked for yet

InitNoSign ==
    /\ sign_call = << >>
    /\ sign_result = << >>
    /\ verify_result = << >>
    /\ last_response = << >>

\* MagicLinkSession.mark_started (models.py:153-158) is what takes a session
\* out of 'pending': a session that is not pending was started, at time 0
InitStarted ==
    /\ db_started_at = (IF db_status = "pending" THEN NoTime ELSE 0)
    /\ db_duration_seconds = NoDuration
    /\ mark_started_calls = 0

\* a live connection to a session that is not completed
Init ==
    /\ InitConsumer
    /\ InitRecord
    /\ InitStreaming
    /\ InitNoSign
    /\ db_status = "active"
    /\ InitStarted
    /\ callback_url \in {NoneVal, "https://hook.example/cb"}

(***************************************************************************)
(* handle_completion (lines 581-664), one step per await                   *)
(***************************************************************************)
\* a task enters handle_completion
InvokeCompletion(t) ==
    /\ hc' = [hc EXCEPT ![t] = "save_conversation"]
    /\ completions' = [completions EXCEPT ![t] = @ + 1]

\* a merge without the fallback to collected_data
MergeFieldsWithoutFallback(ef, cd) ==
    LET preferred == {k \in DOMAIN cd : cd[k] # NoneVal /\ cd[k] # EmptyStr}
    IN  [k \in (DOMAIN ef) \cup preferred |->
            IF k \in preferred THEN cd[k] ELSE ef[k]]

\* a merge in which the extraction's values win
MergeFieldsPreferExtraction(ef, cd) ==
    LET extracted == IF ~Truthy(ef) /\ Truthy(cd) THEN cd ELSE ef
    IN  [k \in (DOMAIN extracted) \cup (DOMAIN cd) |->
            IF k \in DOMAIN extracted THEN extracted[k] ELSE cd[k]]

\* lines 595-620: the fallback to collected_data when the extraction gave
\* nothing, then the merge that prefers collected_data's values that are
\* neither None nor ''
MergeFields(ef, cd) ==
    LET extracted == IF ~Truthy(ef) /\ Truthy(cd) THEN cd ELSE ef
        preferred == {k \in DOMAIN cd : cd[k] # NoneVal /\ cd[k] # EmptyStr}
    IN  IF Truthy(cd)
        THEN [k \in (DOMAIN extracted) \cup preferred |->
                IF k \in preferred THEN cd[k] ELSE extracted[k]]
        ELSE extracted

\* the texts of the messages of a role, joined (ai_service.py:458-470)
RECURSIVE RoleLines(_, _)
RoleLines(history, role) ==
    IF history = << >> THEN << >>
    ELSE IF Head(history).role = role
         THEN Head(history).text \o RoleLines(Tail(history), role)
         ELSE RoleLines(Tail(history), role)

\* AIService.summarize_conversation (ai_service.py:442-481), a text being
\* the sequence of its words
summarize_conversation(history) ==
    IF history = << >> THEN << "No conversation available." >>
    ELSE LET user_lines == RoleLines(history, "user")
             assistant_lines == RoleLines(history, "assistant")
             bullets ==
                 (IF user_lines # << >>
                  THEN << "User responses captured: " >> \o user_lines ELSE << >>)
                 \o (IF assistant_lines # << >>
                     THEN << "Assistant prompts: " >> \o assistant_lines ELSE << >>)
         IN  IF bullets = << >>
             THEN << "Conversation contained assistant prompts without user transcripts." >>
             ELSE bullets

\* "k: v" for the keys of a set, one after the other
RECURSIVE Pairs(_, _)
Pairs(fields, keys) ==
    IF keys = {} THEN << >>
    ELSE LET k == CHOOSE x \in keys : TRUE
         IN  << k, ": ", fields[k] >> \o Pairs(fields, keys \ {k})

\* AIService.summarize_fields (ai_service.py:483-558): the fields that are
\* None or blank are dropped; the text is the backend's sentence, never
\* empty (lines 543-544), or the pairs, which stand for both here
summarize_fields(fields) ==
    LET safe_fields == {k \in DOMAIN fields : fields[k] # NoneVal /\ fields[k] # EmptyStr}
    IN  IF safe_fields = {} THEN << "No responses provided." >>
        ELSE Pairs(fields, safe_fields)

\* lines 592-640: the summary of the completion; the extraction's own
\* summary_text is its backend's, never empty, or summarize_conversation's
\* (ai_service.py:643, 653), which stands for both here
CompletionSummary(extracted_fields, history) ==
    LET summary == summarize_conversation(history)
    IN  IF Truthy(extracted_fields)
        THEN LET fields_summary == summarize_fields(extracted_fields)
             IN  IF fields_summary # << >> THEN fields_summary
                 ELSE summarize_conversation(history)
        ELSE summary

\* await self.save_conversation() (lines 587, 666-674)
HcSaveConversation(t) ==
    /\ hc[t] = "save_conversation"
    /\ db_conversation_history' = conversation_history
    /\ hc' = [hc EXCEPT ![t] = "extract"]
    /\ UNCHANGED << memVars, silenceVars, queueVars, clientVars, monVars,
                    gemini_task, db_status, db_collected_data,
                    db_completed_at, db_fields_completed, hookVars, now,
                    callback_url, connVars, signVars, saved, call_log, countVars, completions,
                    sent_completed, last_control >>

\* lines 589-646: the extraction (ef is what it returned as fields), the
\* merge, the update of collected_data, up to await self.save_summary_text()
HcExtract(t, ef) ==
    /\ hc[t] = "extract"
    /\ LET extracted_fields == MergeFields(ef, collected_data)
       IN  /\ collected_data' =
                IF Truthy(extracted_fields)
                THEN DictUpdate(collected_data, extracted_fields)
                ELSE collected_data
           /\ last_merge' =
                << [extraction |-> ef, fields |-> extracted_fields,
                    summary |-> CompletionSummary(extracted_fields,
                                                  conversation_history)] >>
    /\ hc' = [hc EXCEPT ![t] = "mark"]
    /\ UNCHANGED << conversation_history, summary_event, silenceVars,
                    queueVars, clientVars, monVars, gemini_task, dbVars,
                    hookVars, now, callback_url, connVars, signVars, saved,
                    call_log, frames_received, last_frame_at,
                    sent_to_backend, sent_to_browser, ai_chunks,
                    control_handled, finalize_calls,
                    completions, sent_completed, last_control >>

\* lines 589-613 and 663-664: the extraction returned as fields a JSON value
\* that is no mapping (ai_service.py line 648 passes on whatever the model
\* answered), so that with values in collected_data dict(extracted_fields)
\* at line 613, outside every inner try, raises; the outer "except
\* Exception" logs and handle_completion returns
HcExtractRaises(t) ==
    /\ hc[t] = "extract"
    /\ Truthy(collected_data)
    /\ hc' = [hc EXCEPT ![t] = "idle"]
    /\ UNCHANGED << memVars, silenceVars, queueVars, clientVars, monVars,
                    gemini_task, dbVars, hookVars, now, callback_url,
                    connVars, signVars, saved, call_log, countVars,
                    completions, sent_completed, last_control >>

\* mark_session_completed (lines 686-697): collected_data is written only
\* when the record holds none
MarkedCollectedData(db_cd, cd) == IF ~Truthy(db_cd) THEN cd ELSE db_cd

\* await self.mark_session_completed() (line 649)
HcMark(t) ==
    /\ hc[t] = "mark"
    /\ db_status' = "completed"
    /\ db_completed_at' = now
    /\ db_collected_data' = MarkedCollectedData(db_collected_data, collected_data)
    /\ hc' = [hc EXCEPT ![t] = "send"]
    /\ UNCHANGED << memVars, silenceVars, queueVars, clientVars, monVars,
                    gemini_task, db_conversation_history,
                    db_fields_completed, hookVars, now, callback_url, connVars, signVars, saved,
                    call_log, countVars, completions, sent_completed,
                    last_control >>

\* await self.mark_session_completed() when the load or the save of the
\* record raises: the method logs the exception (lines 696-697) and
\* handle_completion goes on
HcMarkFails(t) ==
    /\ hc[t] = "mark"
    /\ hc' = [hc EXCEPT ![t] = "send"]
    /\ UNCHANGED << memVars, silenceVars, queueVars, clientVars, monVars,
                    gemini_task, dbVars, hookVars, now, callback_url,
                    connVars, signVars, saved, call_log, countVars,
                    completions, sent_completed, last_control >>

\* await self.send(... 'type': 'completed' ...) (lines 652-659)
HcSend(t) ==
    /\ hc[t] = "send"
    /\ sent_completed' = sent_completed + 1
    /\ hc' = [hc EXCEPT ![t] = "webhook"]
    /\ UNCHANGED << memVars, silenceVars, queueVars, clientVars, monVars,
                    gemini_task, dbVars, hookVars, now,
                    callback_url, connVars, signVars, saved, call_log, countVars, completions,
                    last_control >>

\* an attribute of the session's VoiceFormConfig
FormAttr(a) == IF a = "callback_url" THEN callback_url ELSE NoneVal

\* line 705: (getattr(form_config, 'webhook_url', None)
\*             or form_config.webhook_config.get('url'))
\*           if hasattr(form_config, 'webhook_config') else None
TriggerWebhookUrl ==
    IF "webhook_config" \in FormConfigAttrs
    THEN IF "webhook_url" \in FormConfigAttrs
            /\ FormAttr("webhook_url") \notin {NoneVal, EmptyStr}
         THEN FormAttr("webhook_url")
         ELSE NoneVal
    ELSE NoneVal

\* send_webhook.delay(session_id): attempt_number takes its default, 1
Delay ==
    /\ triggers' = triggers + 1
    /\ celery_queue' = celery_queue \cup
          { [trigger |-> triggers + 1, attempt_number |-> 1, retries |-> 0,
             countdown |-> 0] }

\* await self.trigger_webhook() (lines 662, 699-714); handle_completion returns
HcTriggerWebhook(t) ==
    /\ hc[t] = "webhook"
    /\ IF TriggerWebhookUrl \notin {NoneVal, EmptyStr}
       THEN /\ triggers < MaxTriggers
            /\ Delay
       ELSE UNCHANGED << triggers, celery_queue >>
    /\ hc' = [hc EXCEPT ![t] = "idle"]
    /\ UNCHANGED << memVars, silenceVars, queueVars, clientVars, monVars,
                    gemini_task, dbVars, webhook_sent, webhook_response_code,
                    webhook_sent_at, webhook_logs, task_outcome, http_attempts, now,
                    callback_url, connVars, signVars, saved, call_log, countVars, completions,
                    sent_completed, last_control >>

(***************************************************************************)
(* receive (lines 109-151): the consumer's handler of client messages      *)
(***************************************************************************)
ClientFree == client_pc = "idle" /\ hc["client"] = "idle"

\* lines 116-131: the detector's update for one frame
DetectorSpeech(f) == ~f.odd /\ f.pcm # << >> /\ IsSpeechFrame(f.pcm)

DetectorLastSound(f) ==
    IF f.odd \/ f.pcm = << >> THEN last_sound
    ELSE IF IsSpeechFrame(f.pcm) THEN now
    ELSE IF last_sound = NoTime THEN now
    ELSE last_sound

\* a binary frame (lines 112-135): the detector, then the put, which
\* suspends the handler while the queue is full; the model lets at most
\* max frames arrive, until a given time
ReceiveAudio(f, until, max) ==
    /\ ClientFree
    /\ Len(frames_received) < max
    /\ now <= until
    /\ frames_received' = Append(frames_received, f)
    /\ last_frame_at' = now
    /\ last_sound' = DetectorLastSound(f)
    /\ speech_detected' = (speech_detected \/ DetectorSpeech(f))
    /\ last_client_audio' = IF DetectorSpeech(f) THEN now ELSE last_client_audio
    /\ IF Len(audio_out_queue) < OutQueueMax
       THEN /\ audio_out_queue' = Append(audio_out_queue, f)
            /\ UNCHANGED clientVars
       ELSE /\ client_pc' = "put"
            /\ pending_frame' = f
            /\ UNCHANGED audio_out_queue
    /\ UNCHANGED << memVars, last_ai_audio, silence_monitor_triggered,
                    audio_in_queue, monVars, hc, gemini_task, dbVars,
                    hookVars, now, callback_url, connVars, signVars, saved, call_log, ai_chunks,
                    last_merge, sent_to_backend, sent_to_browser,
                    control_handled, finalize_calls, completions,
                    sent_completed, last_control >>

\* a put that would go through whatever the size of the queue
ClientPutResumeUnbounded ==
    /\ client_pc = "put"
    /\ audio_out_queue' = Append(audio_out_queue, pending_frame)
    /\ client_pc' = "idle"
    /\ pending_frame' = NoFrame
    /\ UNCHANGED << memVars, silenceVars, audio_in_queue, monVars, hc,
                    gemini_task, dbVars, hookVars, now, callback_url, connVars, signVars, saved,
                    call_log, countVars, completions, sent_completed,
                    last_control >>

\* the suspended put goes through once the queue has room
ClientPutResume ==
    /\ client_pc = "put"
    /\ Len(audio_out_queue) < OutQueueMax
    /\ audio_out_queue' = Append(audio_out_queue, pending_frame)
    /\ client_pc' = "idle"
    /\ pending_frame' = NoFrame
    /\ UNCHANGED << memVars, silenceVars, audio_in_queue, monVars, hc,
                    gemini_task, dbVars, hookVars, now, callback_url, connVars, signVars, saved,
                    call_log, countVars, completions, sent_completed,
                    last_control >>

\* {'type': 'start'} (lines 140-141), and any type the handler does not know
ReceiveStart ==
    /\ ClientFree
    /\ control_handled < MaxControl
    /\ control_handled' = control_handled + 1
    /\ last_control' = "start"
    /\ UNCHANGED << memVars, silenceVars, queueVars, clientVars, monVars,
                    hc, gemini_task, dbVars, hookVars, now, callback_url, connVars, signVars,
                    saved, call_log, frames_received, last_frame_at, last_merge, sent_to_backend, sent_to_browser, ai_chunks,
                    finalize_calls, completions, sent_completed >>

\* {'type': 'user_transcript', 'text': ...} (lines 142-145)
ReceiveUserTranscript(text) ==
    /\ ClientFree
    /\ control_handled < MaxControl
    /\ Len(conversation_history) < MaxHistory
    /\ control_handled' = control_handled + 1
    /\ last_control' = "user_transcript"
    /\ conversation_history' =
          Append(conversation_history, [role |-> "user", text |-> text])
    /\ UNCHANGED << collected_data, summary_event, silenceVars, queueVars,
                    clientVars, monVars, hc, gemini_task, dbVars,
                    hookVars, now, callback_url, connVars, signVars, saved, call_log,
                    frames_received, last_frame_at, last_merge, sent_to_backend, sent_to_browser, ai_chunks, finalize_calls, completions,
                    sent_completed >>

\* a manual_complete that would complete only a session that has heard speech
ReceiveManualCompleteAfterSpeech ==
    /\ ClientFree
    /\ control_handled < MaxControl
    /\ control_handled' = control_handled + 1
    /\ last_control' = "manual_complete"
    /\ IF speech_detected
       THEN InvokeCompletion("client")
       ELSE UNCHANGED << hc, completions >>
    /\ UNCHANGED << memVars, silenceVars, queueVars, clientVars, monVars,
                    gemini_task, dbVars, hookVars, now,
                    callback_url, connVars, signVars, saved, call_log, frames_received, last_frame_at, last_merge, sent_to_backend, sent_to_browser, ai_chunks,
                    finalize_calls, sent_completed >>

\* {'type': 'manual_complete'} (lines 146-149)
ReceiveManualComplete ==
    /\ ClientFree
    /\ control_handled < MaxControl
    /\ control_handled' = control_handled + 1
    /\ last_control' = "manual_complete"
    /\ InvokeCompletion("client")
    /\ UNCHANGED << memVars, silenceVars, queueVars, clientVars, monVars,
                    gemini_task, dbVars, hookVars, now,
                    callback_url, connVars, signVars, saved, call_log, frames_received, last_frame_at, last_merge, sent_to_backend, sent_to_browser, ai_chunks,
                    finalize_calls, sent_completed >>

\* a sender that would take the newest frame of the queue, not the oldest
SendRealtimeNewestFirst ==
    /\ conn[1].tasks["send_realtime"] = "running"
    /\ audio_out_queue # << >>
    /\ audio_out_queue' = SubSeq(audio_out_queue, 1, Len(audio_out_queue) - 1)
    /\ sent_to_backend' =
           Append(sent_to_backend, audio_out_queue[Len(audio_out_queue)])
    /\ UNCHANGED << memVars, silenceVars, audio_in_queue, clientVars, monVars,
                    hc, gemini_task, dbVars, hookVars, now, callback_url,
                    connVars, signVars, saved, call_log, frames_received,
                    last_frame_at, last_merge, sent_to_browser, ai_chunks,
                    control_handled, finalize_calls, completions,
                    sent_completed, last_control >>

\* send_realtime (lines 258-267): one frame from the queue to the backend
SendRealtime ==
    /\ conn[1].tasks["send_realtime"] = "running"
    /\ audio_out_queue # << >>
    /\ audio_out_queue' = Tail(audio_out_queue)
    /\ sent_to_backend' = Append(sent_to_backend, Head(audio_out_queue))
    /\ UNCHANGED << memVars, silenceVars, audio_in_queue, clientVars, monVars,
                    hc, gemini_task, dbVars, hookVars, now, callback_url,
                    connVars, signVars, saved, call_log, frames_received,
                    last_frame_at, last_merge, sent_to_browser, ai_chunks,
                    control_handled, finalize_calls, completions,
                    sent_completed, last_control >>

\* send_audio_to_browser (lines 399-409): one chunk from the queue to the client
SendAudioToBrowser ==
    /\ audio_in_queue # << >>
    /\ audio_in_queue' = Tail(audio_in_queue)
    /\ sent_to_browser' = Append(sent_to_browser, Head(audio_in_queue))
    /\ UNCHANGED << memVars, silenceVars, audio_out_queue, clientVars, monVars,
                    hc, gemini_task, dbVars, hookVars, now, callback_url,
                    connVars, signVars, saved, call_log, frames_received,
                    last_frame_at, last_merge, sent_to_backend, ai_chunks,
                    control_handled, finalize_calls, completions,
                    sent_completed, last_control >>

(***************************************************************************)
(* receive_audio_from_gemini (lines 269-397): the backend receiver         *)
(***************************************************************************)
GeminiFree == gemini_task = "running" /\ hc["gemini"] = "idle"

\* a response with audio data (lines 276-284)
GeminiAudio(max) ==
    /\ GeminiFree
    /\ ai_chunks < max
    /\ ai_chunks' = ai_chunks + 1
    /\ last_ai_audio' = now
    /\ audio_in_queue' = Append(audio_in_queue, ai_chunks + 1)
    /\ UNCHANGED << memVars, speech_detected, last_sound, last_client_audio,
                    silence_monitor_triggered, audio_out_queue, clientVars,
                    monVars, hc, gemini_task, dbVars, hookVars, now,
                    callback_url, connVars, signVars, saved, call_log, frames_received, last_frame_at, last_merge, sent_to_backend, sent_to_browser,
                    control_handled, finalize_calls, completions,
                    sent_completed, last_control >>

\* a response with text (lines 329-343): the transcript is kept and sent,
\* and a completion phrase starts the completion
GeminiText(text) ==
    /\ GeminiFree
    /\ Len(conversation_history) < MaxHistory
    /\ conversation_history' =
          Append(conversation_history, [role |-> "assistant", text |-> text])
    /\ IF is_survey_complete(text)
       THEN /\ completions["gemini"] < MaxGeminiCompletions
            /\ InvokeCompletion("gemini")
       ELSE UNCHANGED << hc, completions >>
    /\ UNCHANGED << collected_data, summary_event, silenceVars, queueVars,
                    clientVars, monVars, gemini_task, dbVars,
                    hookVars, now, callback_url, connVars, signVars, saved, call_log, countVars,
                    sent_completed, last_control >>

\* bool(text) of a text or None
TextTruthy(t) == t \notin {NoneText, EmptyText}

\* the indexes of the parts that have an attribute 'text'
PartsWithText(parts) == { i \in DOMAIN parts : parts[i].has_text }

\* lines 291-327: the text the loop takes from a response without audio:
\* response.text when truthy; then, whatever was found, the text attribute
\* of the first part of the model turn that has one; then the output
\* transcription when nothing truthy was found
TranscriptText(r) ==
    LET top == IF TextTruthy(r.text) THEN r.text ELSE NoneText
        with == PartsWithText(r.parts)
        first == CHOOSE i \in with : \A j \in with : i <= j
        after_parts == IF with # {} THEN r.parts[first].text ELSE top
    IN  IF ~TextTruthy(after_parts) /\ TextTruthy(r.output_transcription)
        THEN r.output_transcription
        ELSE after_parts

\* a response without audio (lines 286-343): the text is taken, and a truthy
\* text is kept, sent and tested for a completion phrase
GeminiResponse(r) ==
    /\ GeminiFree
    /\ Len(conversation_history) < MaxHistory
    /\ last_response' =
           << [response |-> r, text_content |-> TranscriptText(r)] >>
    /\ IF TextTruthy(TranscriptText(r))
       THEN /\ conversation_history' =
                  Append(conversation_history,
                         [role |-> "assistant", text |-> TranscriptText(r)])
            /\ IF is_survey_complete(TranscriptText(r))
               THEN /\ completions["gemini"] < MaxGeminiCompletions
                    /\ InvokeCompletion("gemini")
               ELSE UNCHANGED << hc, completions >>
       ELSE UNCHANGED << conversation_history, hc, completions >>
    /\ UNCHANGED << collected_data, summary_event, silenceVars, queueVars,
                    clientVars, monVars, gemini_task, dbVars, hookVars, now,
                    callback_url, conn, db_record, genai_available,
                    recordVars, signVars, saved, call_log, countVars,
                    sent_completed, last_control >>

\* the end of a turn (lines 391-395): the chunks not yet sent are dropped
GeminiTurnComplete ==
    /\ GeminiFree
    /\ audio_in_queue # << >>
    /\ audio_in_queue' = << >>
    /\ UNCHANGED << memVars, silenceVars, audio_out_queue, clientVars, monVars,
                    hc, gemini_task, dbVars, hookVars, now, callback_url, connVars, signVars,
                    saved, call_log, countVars, completions, sent_completed,
                    last_control >>

\* the backend stream raises (lines 396-397): the task logs and ends
GeminiReceiveError ==
    /\ GeminiFree
    /\ gemini_task' = "ended"
    /\ UNCHANGED << memVars, silenceVars, queueVars, clientVars, monVars,
                    hc, dbVars, hookVars, now, callback_url, connVars, signVars, saved,
                    call_log, countVars, completions, sent_completed,
                    last_control >>

\* ---- the tool-call handler (lines 345-389)

\* line 355
SaveFieldName(args) ==
    GetCI(args, << "field_name", "fieldName", "name" >>, NoneVal)

\* line 357: if field_name
SaveFieldApplies(args) == SaveFieldName(args) \notin {NoneVal, EmptyStr}

\* a save_field that would keep the value a name already has: what
\* last-write-wins rules out
HandleSaveFieldKeepFirst(cd, args) ==
    IF SaveFieldApplies(args) /\ SaveFieldName(args) \notin DOMAIN cd
    THEN DictSet(cd, SaveFieldName(args), DictGet(args, "value"))
    ELSE cd

\* lines 354-358: save_field upserts args.get('value') under the field name
HandleSaveField(cd, args) ==
    IF SaveFieldApplies(args)
    THEN DictSet(cd, SaveFieldName(args), DictGet(args, "value"))
    ELSE cd

\* line 369, before the "or '{}'"
SubmitJsonArg(args) ==
    GetCI(args,
          << "function_call_json_text", "functionCallJsonText", "json", "payload" >>,
          NoneText)

\* line 369: a missing, None or empty text counts as '{}'
SubmitJsonText(args) ==
    IF SubmitJsonArg(args) \in {NoneText, EmptyText}
    THEN << "{", "}" >>
    ELSE SubmitJsonArg(args)

\* a submit_form_summary that would lose the collected data when the text
\* does not parse
HandleSubmitSummaryResetting(cd, args) ==
    LET parsed == json_loads(SubmitJsonText(args))
    IN  IF parsed.ok
        THEN IF parsed.isdict THEN DictUpdate(cd, parsed.val) ELSE cd
        ELSE EmptyDict

\* lines 370-375: the parsed object is merged over collected_data; a text
\* that does not parse, or parses to something else, changes nothing
HandleSubmitSummary(cd, args) ==
    LET parsed == json_loads(SubmitJsonText(args))
    IN  IF parsed.ok /\ parsed.isdict THEN DictUpdate(cd, parsed.val) ELSE cd

\* call_log with one more entry, while the specification keeps it
Logged(keep, entry) == IF keep THEN Append(call_log, entry) ELSE call_log

\* a save_field call (lines 354-365)
GeminiSaveField(args, keep) ==
    /\ GeminiFree
    /\ keep => Len(call_log) < MaxLog
    /\ collected_data' = HandleSaveField(collected_data, args)
    /\ saved' = IF SaveFieldApplies(args)
                THEN DictSet(saved, SaveFieldName(args), DictGet(args, "value"))
                ELSE saved
    /\ call_log' = Logged(keep, [name |-> "save_field",
                                 field |-> SaveFieldName(args),
                                 value |-> DictGet(args, "value"),
                                 text |-> NoneText])
    /\ UNCHANGED << conversation_history, summary_event, silenceVars,
                    queueVars, clientVars, monVars, hc, gemini_task,
                    dbVars, hookVars, now, callback_url, connVars, signVars, countVars,
                    completions, sent_completed, last_control >>

\* a submit_form_summary call (lines 367-384)
GeminiSubmitSummary(args, keep) ==
    /\ GeminiFree
    /\ keep => Len(call_log) < MaxLog
    /\ collected_data' = HandleSubmitSummary(collected_data, args)
    /\ summary_event' = TRUE
    /\ call_log' = Logged(keep, [name |-> "submit_form_summary",
                                 field |-> NoneVal,
                                 value |-> NoneVal,
                                 text |-> SubmitJsonArg(args)])
    /\ UNCHANGED << conversation_history, silenceVars, queueVars, clientVars,
                    monVars, hc, gemini_task, dbVars, hookVars, now,
                    callback_url, connVars, signVars, saved, countVars, completions,
                    sent_completed, last_control >>

\* ---- responses the decoding has to tolerate (lines 286-389, 465-522)
\* the shapes: a response with nothing the loop knows; one whose
\* server_content has a model_turn without a list of parts; tool calls with
\* a name the handler does not know, or with arguments that are no dict
DecodeResponses ==
    { [kind |-> "nothing_known", name |-> NoneVal, dict_args |-> FALSE],
      [kind |-> "model_turn_without_parts", name |-> NoneVal, dict_args |-> FALSE],
      [kind |-> "tool_call", name |-> "reset_form", dict_args |-> TRUE],
      [kind |-> "tool_call", name |-> "save_field", dict_args |-> FALSE],
      [kind |-> "tool_call", name |-> "submit_form_summary", dict_args |-> FALSE] }

\* _extract_tool_calls (lines 477-479): arguments that are no dict become {}
ExtractedArgs(r) ==
    IF r.dict_args THEN [field_name |-> "satisfaction", value |-> "8"] ELSE EmptyDict

\* one turn of the loop over the responses for such a response: with a
\* model_turn whose parts are None, len(mt.parts) (line 312) raises outside
\* the try of the tool calls and the task logs and ends (lines 396-397)
GeminiDecode(r) ==
    /\ GeminiFree
    /\ Len(call_log) < MaxLog
    /\ call_log' = Append(call_log,
          [name |-> IF r.kind = "tool_call" THEN r.name ELSE r.kind,
           field |-> NoneVal, value |-> NoneVal, text |-> NoneText])
    /\ gemini_task' =
          IF r.kind = "model_turn_without_parts" THEN "ended" ELSE gemini_task
    /\ collected_data' =
          CASE r.kind = "tool_call" /\ r.name = "save_field" ->
                  HandleSaveField(collected_data, ExtractedArgs(r))
            [] r.kind = "tool_call" /\ r.name = "submit_form_summary" ->
                  HandleSubmitSummary(collected_data, ExtractedArgs(r))
            [] OTHER -> collected_data
    /\ summary_event' =
          (summary_event \/ (r.kind = "tool_call" /\ r.name = "submit_form_summary"))
    /\ UNCHANGED << conversation_history, silenceVars, queueVars, clientVars,
                    monVars, hc, dbVars, hookVars, now, callback_url,
                    connVars, signVars, saved, countVars, completions,
                    sent_completed, last_control >>

\* a complete_form call (lines 386-387)
GeminiCompleteForm ==
    /\ GeminiFree
    /\ completions["gemini"] < MaxGeminiCompletions
    /\ InvokeCompletion("gemini")
    /\ UNCHANGED << memVars, silenceVars, queueVars, clientVars, monVars,
                    gemini_task, dbVars, hookVars, now,
                    callback_url, connVars, signVars, saved, call_log, countVars, sent_completed,
                    last_control >>

(***************************************************************************)
(* _monitor_silence (lines 411-446)                                        *)
(***************************************************************************)
\* line 424
SilentMs == now - last_sound

\* lines 426-429
ClientGapMs ==
    IF last_client_audio # NoTime THEN now - last_client_audio ELSE SilentMs

\* line 431: (self._last_ai_audio_monotonic or 0)
AiGapMs == now - (IF last_ai_audio = NoTime THEN 0 ELSE last_ai_audio)

\* a trigger condition that would not wait for speech
SilenceConditionUngated ==
    /\ last_sound # NoTime
    /\ SilentMs >= SilenceTimeoutMs
    /\ ClientGapMs >= SilenceTimeoutMs
    /\ AiGapMs > AIGapMs

\* a trigger condition that would need more than the timeout
SilenceConditionStrict ==
    /\ speech_detected
    /\ last_sound # NoTime
    /\ SilentMs > SilenceTimeoutMs
    /\ ClientGapMs > SilenceTimeoutMs
    /\ AiGapMs > AIGapMs

\* a trigger condition that would not look at the AI's audio
SilenceConditionDeaf ==
    /\ speech_detected
    /\ last_sound # NoTime
    /\ SilentMs >= SilenceTimeoutMs
    /\ ClientGapMs >= SilenceTimeoutMs

\* lines 419-422 and 432: the poll's trigger condition
SilenceCondition ==
    /\ speech_detected
    /\ last_sound # NoTime
    /\ SilentMs >= SilenceTimeoutMs
    /\ ClientGapMs >= SilenceTimeoutMs
    /\ AiGapMs > AIGapMs

\* one turn of the loop after its sleep (lines 416-434)
MonitorPoll ==
    /\ mon_pc = "sleep"
    /\ now >= monitor_wake
    /\ IF silence_monitor_triggered
       THEN /\ mon_pc' = "done"
            /\ UNCHANGED << silence_monitor_triggered, monitor_wake, grace_deadline >>
       ELSE IF SilenceCondition
       THEN /\ silence_monitor_triggered' = TRUE
            /\ mon_pc' = "grace"
            /\ grace_deadline' = now + GraceMs
            /\ UNCHANGED monitor_wake
       ELSE /\ monitor_wake' = now + PollMs
            /\ UNCHANGED << silence_monitor_triggered, mon_pc, grace_deadline >>
    /\ UNCHANGED << memVars, speech_detected, last_sound, last_client_audio,
                    last_ai_audio, queueVars, clientVars, hc, gemini_task,
                    dbVars, hookVars, now, callback_url, connVars, signVars, saved, call_log,
                    countVars, completions, sent_completed, last_control >>

\* a monitor that would not wait for the summary
MonitorGraceEndEarly ==
    /\ mon_pc = "grace"
    /\ mon_pc' = "done"
    /\ InvokeCompletion("monitor")
    /\ UNCHANGED << memVars, silenceVars, queueVars, clientVars, monitor_wake,
                    grace_deadline, gemini_task, dbVars,
                    hookVars, now, callback_url, connVars, signVars, saved,
                    call_log, countVars, sent_completed, last_control >>

\* lines 436-444: the wait for the summary ends, by the event or by its
\* timeout, and the monitor runs the completion
MonitorGraceEnd ==
    /\ mon_pc = "grace"
    /\ summary_event \/ now >= grace_deadline
    /\ mon_pc' = "done"
    /\ InvokeCompletion("monitor")
    /\ UNCHANGED << memVars, silenceVars, queueVars, clientVars, monitor_wake,
                    grace_deadline, gemini_task, dbVars,
                    hookVars, now, callback_url, connVars, signVars, saved, call_log, countVars,
                    sent_completed, last_control >>

(***************************************************************************)
(* Time                                                                    *)
(***************************************************************************)
\* the clock advances by one grain; a timer that is due runs first (the
\* monitor's sleep, its wait_for timeout, its wake-up by the summary event)
Tick ==
    /\ now + TimeStep <= MaxTime
    /\ mon_pc = "sleep" => now + TimeStep <= monitor_wake
    /\ mon_pc = "grace" => ~summary_event /\ now + TimeStep <= grace_deadline
    /\ now' = now + TimeStep
    /\ UNCHANGED << memVars, silenceVars, queueVars, clientVars, monVars,
                    hc, gemini_task, dbVars, hookVars, callback_url, connVars, signVars,
                    saved, call_log, countVars, completions, sent_completed,
                    last_control >>

(***************************************************************************)
(* views.py                                                                *)
(***************************************************************************)
\* a mark_started that would not look at the status
mark_startedAnyStatus(status, started_at, t) ==
    [status |-> "active", started_at |-> t]

\* MagicLinkSession.mark_started (models.py:153-158): the status and the
\* started_at it leaves, called at time t
mark_started(status, started_at, t) ==
    IF status = "pending"
    THEN [status |-> "active", started_at |-> t]
    ELSE [status |-> status, started_at |-> started_at]

\* finalize_session_public (views.py:245-271), for a session not expired
FinalizeSessionPublic(fields) ==
    /\ finalize_calls < MaxFinalize
    /\ finalize_calls' = finalize_calls + 1
    /\ db_collected_data' = DictUpdate(db_collected_data, fields)
    /\ db_fields_completed' = NonNullCount(DictUpdate(db_collected_data, fields))
    /\ UNCHANGED << memVars, silenceVars, queueVars, clientVars, monVars,
                    hc, gemini_task, db_status, db_conversation_history,
                    db_completed_at, hookVars, now, callback_url, connVars, signVars, saved,
                    call_log, frames_received, last_frame_at, last_merge, sent_to_backend, sent_to_browser, ai_chunks, control_handled,
                    completions, sent_completed, last_control >>

\* session_interface (views.py:212-243), for a session not expired: the page
\* of a completed session is the 'completed' page, and a pending session is
\* marked started
SessionInterface ==
    /\ mark_started_calls < MaxMarkStarted
    /\ db_status = "pending"
    /\ mark_started_calls' = mark_started_calls + 1
    /\ db_status' = mark_started(db_status, db_started_at, now).status
    /\ db_started_at' = mark_started(db_status, db_started_at, now).started_at
    /\ UNCHANGED << memVars, silenceVars, queueVars, clientVars, monVars,
                    hc, gemini_task, db_collected_data,
                    db_conversation_history, db_completed_at,
                    db_fields_completed, hookVars, now, callback_url, conn,
                    db_record, genai_available, db_duration_seconds,
                    respVars, signVars, saved, call_log, countVars, completions,
                    sent_completed, last_control >>

(***************************************************************************)
(* models.py: the methods of MagicLinkSession                              *)
(***************************************************************************)
\* session.mark_started(), on a session of any status
MarkStarted ==
    /\ mark_started_calls < MaxMarkStarted
    /\ mark_started_calls' = mark_started_calls + 1
    /\ db_status' = mark_started(db_status, db_started_at, now).status
    /\ db_started_at' = mark_started(db_status, db_started_at, now).started_at
    /\ UNCHANGED << memVars, silenceVars, queueVars, clientVars, monVars,
                    hc, gemini_task, db_collected_data,
                    db_conversation_history, db_completed_at,
                    db_fields_completed, hookVars, now, callback_url, conn,
                    db_record, genai_available, db_duration_seconds,
                    respVars, signVars, saved, call_log, countVars, completions,
                    sent_completed, last_control >>

\* session.update_collected_data(field_name, value) (models.py:182-186);
\* the model leaves out the calls that write what the record holds already
UpdateCollectedData(field_name, value) ==
    /\ DictSet(db_collected_data, field_name, value) # db_collected_data
    /\ db_collected_data' = DictSet(db_collected_data, field_name, value)
    /\ db_fields_completed' =
           NonNullCount(DictSet(db_collected_data, field_name, value))
    /\ UNCHANGED << memVars, silenceVars, queueVars, clientVars, monVars,
                    hc, gemini_task, db_status, db_conversation_history,
                    db_completed_at, hookVars, now, callback_url, connVars,
                    signVars, saved, call_log, countVars, completions,
                    sent_completed, last_control >>

\* session.get_completion_percentage() (models.py:188-193); the quotient of
\* the code is a float, exact for the forms of the model
get_completion_percentage(fields_completed, total_fields) ==
    IF total_fields = 0 THEN 0
    ELSE (fields_completed * 100) \div total_fields

\* SessionViewSet.retry_webhook (views.py:156-179)
RetryWebhook ==
    /\ db_status = "completed"
    /\ callback_url \notin {NoneVal, EmptyStr}
    /\ triggers < MaxTriggers
    /\ Delay
    /\ UNCHANGED << memVars, silenceVars, queueVars, clientVars, monVars,
                    hc, gemini_task, dbVars, webhook_sent, webhook_sent_at,
                    webhook_response_code, webhook_logs, task_outcome,
                    http_attempts, now, callback_url, connVars, signVars, saved, call_log,
                    countVars, completions, sent_completed, last_control >>

(***************************************************************************)
(* send_webhook (tasks.py:17-137), run by a Celery worker                  *)
(***************************************************************************)
\* a record that calls no response a success
ResponseLogUnsuccessful(msg, status) ==
    [trigger |-> msg.trigger, attempt_number |-> msg.attempt_number,
     status_code |-> status, is_success |-> FALSE]

\* lines 76-88: the record written after a response came back
ResponseLog(msg, status) ==
    [trigger |-> msg.trigger, attempt_number |-> msg.attempt_number,
     status_code |-> status, is_success |-> (status = "200")]

\* lines 111-121: the record written by the except clause
FailureLog(msg) ==
    [trigger |-> msg.trigger, attempt_number |-> msg.attempt_number,
     status_code |-> NoneVal, is_success |-> FALSE]

\* the records one execution appends: a response of 400 or more is logged
\* by the try block (line 77), raises (line 105), and is logged again by
\* the except clause (line 112)
AttemptLogs(msg, resp) ==
    CASE resp = "200" -> << ResponseLog(msg, resp) >>
      [] resp \in {"404", "500"} -> << ResponseLog(msg, resp), FailureLog(msg) >>
      [] OTHER -> << FailureLog(msg) >>

\* line 127: the task's own test of its attempt count
TaskRetries(msg) == msg.attempt_number < WebhookRetryAttempts

\* Task.retry of Celery for a task bound with max_retries=3 (line 17): the
\* request's retries count, not attempt_number, is what Celery limits
CeleryAllowsRetry(msg) == msg.retries + 1 <= CeleryMaxRetries

\* line 129
Countdown(attempt_number) == BackoffBase * (3 ^ (attempt_number - 1))

\* self.retry(exc=exc, countdown=countdown) (line 130): the message is sent
\* again with the arguments of this request, so attempt_number is unchanged
RetryMessage(msg) ==
    [trigger |-> msg.trigger, attempt_number |-> msg.attempt_number,
     retries |-> msg.retries + 1, countdown |-> Countdown(msg.attempt_number)]

\* an execution that marks the session failed when its retries are used up
RunSendWebhookMarkingFailure(msg, resp) ==
    /\ msg \in celery_queue
    /\ http_attempts' = [http_attempts EXCEPT ![msg.trigger] = @ + 1]
    /\ webhook_logs' = webhook_logs \o AttemptLogs(msg, resp)
    /\ celery_queue' =
          IF resp # "200" /\ TaskRetries(msg) /\ CeleryAllowsRetry(msg)
          THEN (celery_queue \ {msg}) \cup {RetryMessage(msg)}
          ELSE celery_queue \ {msg}
    /\ task_outcome' = [task_outcome EXCEPT ![msg.trigger] =
          IF resp = "200" THEN "success"
          ELSE IF TaskRetries(msg) /\ CeleryAllowsRetry(msg) THEN "retry"
          ELSE "raised"]
    /\ webhook_sent' = (webhook_sent \/ resp = "200")
    /\ webhook_response_code' = IF resp = "200" THEN "200" ELSE webhook_response_code
    /\ webhook_sent_at' = IF resp = "200" THEN now ELSE webhook_sent_at
    /\ db_status' =
          IF resp # "200" /\ ~(TaskRetries(msg) /\ CeleryAllowsRetry(msg))
          THEN "failed" ELSE db_status
    /\ UNCHANGED << memVars, silenceVars, queueVars, clientVars, monVars,
                    hc, gemini_task, db_collected_data,
                    db_conversation_history, db_completed_at,
                    db_fields_completed, triggers, now, callback_url,
                    connVars, signVars, saved, call_log, countVars,
                    completions, sent_completed, last_control >>

\* one execution of the task for message msg, the endpoint doing resp
RunSendWebhook(msg, resp) ==
    /\ msg \in celery_queue
    /\ http_attempts' = [http_attempts EXCEPT ![msg.trigger] = @ + 1]
    /\ webhook_logs' = webhook_logs \o AttemptLogs(msg, resp)
    /\ IF resp = "200"
       THEN /\ webhook_sent' = TRUE
            /\ webhook_response_code' = "200"
            /\ webhook_sent_at' = now
            /\ celery_queue' = celery_queue \ {msg}
            /\ task_outcome' = [task_outcome EXCEPT ![msg.trigger] = "success"]
       ELSE /\ UNCHANGED << webhook_sent, webhook_response_code, webhook_sent_at >>
            /\ IF TaskRetries(msg)
               THEN IF CeleryAllowsRetry(msg)
                    THEN /\ celery_queue' = (celery_queue \ {msg}) \cup {RetryMessage(msg)}
                         /\ task_outcome' = [task_outcome EXCEPT ![msg.trigger] = "retry"]
                    ELSE /\ celery_queue' = celery_queue \ {msg}
                         /\ task_outcome' = [task_outcome EXCEPT ![msg.trigger] = "raised"]
               ELSE /\ celery_queue' = celery_queue \ {msg}
                    /\ task_outcome' = [task_outcome EXCEPT ![msg.trigger] = "failed"]
    /\ UNCHANGED << memVars, silenceVars, queueVars, clientVars, monVars,
                    hc, gemini_task, dbVars, triggers, now, callback_url, connVars, signVars,
                    saved, call_log, countVars, completions, sent_completed,
                    last_control >>

(***************************************************************************)
(* generate_webhook_signature (tasks.py:140-157) and the SDK's             *)
(* verify_webhook (client.py:179-202)                                      *)
(***************************************************************************)
\* a payload is a dict: its items, as key and value, in insertion order
PayloadKeys == {"data", "form_id", "session_id"}

\* the order of the keys as strings, which sort_keys follows
KeyRank == [data |-> 1, form_id |-> 2, session_id |-> 3]

PayloadValue(k, d) ==
    CASE k = "data" -> d
      [] k = "form_id" -> "f_1"
      [] OTHER -> "s_1"

KeyOrders ==
    { o \in [1..Cardinality(PayloadKeys) -> PayloadKeys] :
        \A i, j \in DOMAIN o : i # j => o[i] # o[j] }

Payloads ==
    { [i \in DOMAIN o |-> << o[i], PayloadValue(o[i], d) >>] :
        o \in KeyOrders, d \in {"8", "7"} }

Secrets == {"whsec_a", "whsec_b"}

Items(payload) == { payload[i] : i \in DOMAIN payload }

\* dict equality: the same items, in whatever order
DictEqual(p, q) == Items(p) = Items(q)

\* json.dumps(payload) as is: the items serialized in insertion order
JsonDumpsUnsorted(payload) ==
    payload

\* json.dumps(payload, sort_keys=True): the items serialized in the order
\* of their keys
JsonDumps(payload) ==
    CHOOSE s \in [DOMAIN payload -> Items(payload)] :
        /\ Items(s) = Items(payload)
        /\ \A i, j \in DOMAIN s : i < j => KeyRank[s[i][1]] < KeyRank[s[j][1]]

\* hmac.new(key, msg, hashlib.sha256).hexdigest(): a digest that tells
\* apart any two pairs of key and message
HmacSha256Hex(key, msg) == << "hmac_sha256", key, msg >>

\* f"sha256={signature}"
Sha256Header(hex) == << "sha256=", hex >>

\* tasks.py:140-157
generate_webhook_signature(payload, secret) ==
    LET payload_str == JsonDumps(payload)
        signature == HmacSha256Hex(secret, payload_str)
    IN  Sha256Header(signature)

\* client.py:179-202
verify_webhook(payload, signature, webhook_secret) ==
    LET payload_str == JsonDumps(payload)
        expected_signature == HmacSha256Hex(webhook_secret, payload_str)
    IN  Sha256Header(expected_signature) = signature

\* a call of generate_webhook_signature
GenerateSignature(payload, secret) ==
    /\ Len(sign_call) < MaxSignCalls
    /\ sign_result' = generate_webhook_signature(payload, secret)
    /\ sign_call' = Append(sign_call,
          [payload |-> payload, secret |-> secret,
           signature |-> generate_webhook_signature(payload, secret)])
    /\ UNCHANGED << streamVars, connVars, verify_result >>

\* the signatures a receiver is handed: those generated, and those made
\* of the same payloads with a guess of the secret
Signatures ==
    { sign_call[i].signature : i \in DOMAIN sign_call }
        \cup { generate_webhook_signature(sign_call[i].payload, "whsec_guess") :
                  i \in DOMAIN sign_call }

\* a call of verify_webhook by the receiver of a webhook
VerifyWebhook(payload, signature, webhook_secret) ==
    /\ verify_result' =
          << [payload |-> payload, signature |-> signature,
              secret |-> webhook_secret,
              accepted |-> verify_webhook(payload, signature, webhook_secret)] >>
    /\ UNCHANGED << streamVars, connVars, sign_call, sign_result >>

(***************************************************************************)
(* connect, run_live_api and disconnect: the lifecycle of a connection     *)
(***************************************************************************)
\* a validation that accepts a completed session
SessionValidIgnoringStatus ==
    db_record = "present"

\* get_session_data (lines 716-744): is_valid
SessionValid ==
    /\ db_record = "present"
    /\ db_status # "completed"

\* connect (lines 46-101): with google-genai missing, a session that is not
\* valid, or get_session_data raising, one 'error' event is sent and
\* nothing is started; else the main task is created
Connect(c) ==
    /\ conn[c].stage = "none"
    /\ IF genai_available /\ db_record # "unreadable" /\ SessionValid
       THEN conn' = [conn EXCEPT ![c].stage = "connecting",
                                 ![c].main_task = "running"]
       ELSE conn' = [conn EXCEPT ![c].stage = "refused",
                                 ![c].errors = @ + 1]
    /\ UNCHANGED << streamVars, db_record, genai_available, recordVars,
                    respVars, signVars >>

\* run_live_api up to the start of the tasks (lines 158-247): the backend
\* connection opens, the queues are created and the four tasks started; or
\* the API key is missing or the connection fails, and the exception is
\* reported to the client (lines 251-256)
RunLiveApiStart(c, ok) ==
    /\ conn[c].stage = "connecting"
    /\ conn[c].main_task = "running"
    /\ IF ok
       THEN conn' = [conn EXCEPT ![c].stage = "streaming",
                                 ![c].backend = "open",
                                 ![c].queues = TRUE,
                                 ![c].tasks = [t \in StreamTasks |-> "running"]]
       ELSE conn' = [conn EXCEPT ![c].stage = "closed",
                                 ![c].main_task = "done",
                                 ![c].errors = @ + 1]
    /\ UNCHANGED << streamVars, db_record, genai_available, recordVars,
                    respVars, signVars >>

\* the tasks whose body is wrapped in "except Exception" (lines 266-267,
\* 396-397, 408-409)
IOTasks == StreamTasks \ {"_monitor_silence"}

\* an exception in send_realtime, receive_audio_from_gemini or
\* send_audio_to_browser: the task logs it and returns, so that the
\* TaskGroup sees a task that finished
TaskFails(c, t) ==
    /\ t \in IOTasks
    /\ conn[c].tasks[t] = "running"
    /\ conn' = [conn EXCEPT ![c].tasks[t] = "ended",
                            ![c].died = @ \cup {t}]
    /\ UNCHANGED << streamVars, db_record, genai_available, recordVars,
                    respVars, signVars >>

\* _monitor_silence leaves its loop (lines 418, 444)
MonitorReturns(c) ==
    /\ conn[c].tasks["_monitor_silence"] = "running"
    /\ conn' = [conn EXCEPT ![c].tasks["_monitor_silence"] = "ended"]
    /\ UNCHANGED << streamVars, db_record, genai_available, recordVars,
                    respVars, signVars >>

\* a cancellation that reaches no task
KeepTasks(c) ==
    conn[c].tasks

\* the tasks of c once the running ones are cancelled
CancelTasks(c) ==
    [t \in StreamTasks |->
        IF conn[c].tasks[t] = "running" THEN "cancelled" ELSE conn[c].tasks[t]]

\* an exception in _monitor_silence, which catches CancelledError only
\* (lines 445-446): the TaskGroup cancels the siblings, the "async with"
\* closes the backend connection, and run_live_api reports the exception
\* group to the client (lines 251-256)
MonitorRaises(c) ==
    /\ conn[c].tasks["_monitor_silence"] = "running"
    /\ conn[c].main_task = "running"
    /\ conn' = [conn EXCEPT
                  ![c].tasks = [CancelTasks(c) EXCEPT !["_monitor_silence"] = "ended"],
                  ![c].died = @ \cup {"_monitor_silence"},
                  ![c].backend = "closed",
                  ![c].closes = @ + 1,
                  ![c].main_task = "done",
                  ![c].stage = "closed",
                  ![c].errors = @ + 1]
    /\ UNCHANGED << streamVars, db_record, genai_available, recordVars,
                    respVars, signVars >>

\* the four tasks have finished: the TaskGroup is left, the "async with"
\* closes the backend connection and run_live_api returns (line 247)
GroupExit(c) ==
    /\ conn[c].stage = "streaming"
    /\ conn[c].main_task = "running"
    /\ \A t \in StreamTasks : conn[c].tasks[t] # "running"
    /\ conn' = [conn EXCEPT ![c].backend = "closed",
                            ![c].closes = @ + 1,
                            ![c].main_task = "done",
                            ![c].stage = "closed"]
    /\ UNCHANGED << streamVars, db_record, genai_available, recordVars,
                    respVars, signVars >>

\* disconnect (lines 103-107): the main task, if there is one, is asked to
\* cancel; Task.cancel() does nothing to a task that is done or already
\* cancelling
Disconnect(c) ==
    /\ conn[c].stage # "none"
    /\ conn[c].disconnects < MaxDisconnects
    /\ conn' = [conn EXCEPT
                  ![c].disconnects = @ + 1,
                  ![c].main_task = IF @ = "running" THEN "cancelling" ELSE @]
    /\ UNCHANGED << streamVars, db_record, genai_available, recordVars,
                    respVars, signVars >>

\* the CancelledError reaches run_live_api (lines 249-250): the TaskGroup
\* cancels the tasks still running, and the "async with" closes the backend
\* connection if it was open
MainTaskCancelled(c) ==
    /\ conn[c].main_task = "cancelling"
    /\ conn' = [conn EXCEPT
                  ![c].tasks = CancelTasks(c),
                  ![c].backend = IF @ = "open" THEN "closed" ELSE @,
                  ![c].closes = IF conn[c].backend = "open" THEN @ + 1 ELSE @,
                  ![c].main_task = "cancelled",
                  ![c].stage = "closed"]
    /\ UNCHANGED << streamVars, db_record, genai_available, recordVars,
                    respVars, signVars >>

(***************************************************************************)
(* Specifications                                                          *)
(***************************************************************************)
HcStep(t, extractions) ==
    \/ HcSaveConversation(t)
    \/ \E ef \in extractions : HcExtract(t, ef)
    \/ HcMark(t)
    \/ HcSend(t)
    \/ HcTriggerWebhook(t)

\* ---- the session: the handlers and tasks of the consumer and the finalize
\* endpoint on a few inputs of each kind, the clock standing still (the
\* silence monitor is exercised against the clock below)
SessionFrames == { [pcm |-> << 120, -120 >>, odd |-> FALSE] }

SessionSaveFieldArgs ==
    { [field_name |-> "satisfaction", value |-> "8"],
      [field_name |-> "satisfaction", value |-> NoneVal],
      [field_name |-> OtherName, value |-> "7"] }

SessionSubmitArgs ==
    { [summary_text |-> << "ok" >>,
       function_call_json_text |-> << "{", "satisfaction", ":", "7", "}" >>],
      [summary_text |-> << "ok" >>,
       function_call_json_text |-> << "{", "satisfaction", ":", "8" >>] }

SessionExtractions == { EmptyDict, [satisfaction |-> "7"], [nickname |-> "8"] }

SessionFinalizeFields == { [satisfaction |-> "7"] }

NextSession ==
    \/ \E f \in SessionFrames : ReceiveAudio(f, 0, MaxFrames)
    \/ ReceiveStart
    \/ ReceiveUserTranscript(<< "eight" >>)
    \/ ReceiveManualComplete
    \/ \E text \in AssistantTexts : GeminiText(text)
    \/ GeminiReceiveError
    \/ \E args \in SessionSaveFieldArgs : GeminiSaveField(args, FALSE)
    \/ \E args \in SessionSubmitArgs : GeminiSubmitSummary(args, FALSE)
    \/ GeminiCompleteForm
    \/ \E t \in {"client", "gemini"} : HcStep(t, SessionExtractions)
    \/ \E t \in {"client", "gemini"} : HcExtractRaises(t)
    \/ \E fields \in SessionFinalizeFields : FinalizeSessionPublic(fields)

Spec == Init /\ [][NextSession]_vars

\* ---- the tool-call handler alone on every input of the model, with the
\* log of the calls it handled
NextTools ==
    \/ \E args \in SaveFieldArgs : GeminiSaveField(args, TRUE)
    \/ \E args \in SubmitArgs : GeminiSubmitSummary(args, TRUE)

SpecTools == Init /\ [][NextTools]_vars

\* ---- the silence monitor against the audio of both directions, the clock
\* advancing grain by grain and every timer running when it is due
NextSilence ==
    \/ \E f \in Frames : ReceiveAudio(f, MaxAudioTime, MaxFrames)
    \/ GeminiAudio(MaxAIChunks)
    \/ GeminiSubmitSummary([summary_text |-> << "ok" >>], FALSE)
    \/ MonitorPoll
    \/ MonitorGraceEnd
    \/ HcStep("monitor", {EmptyDict})
    \/ Tick

\* the form's callback URL plays no part here: one value of it is enough
InitSilence == Init /\ callback_url # NoneVal

SpecSilence == InitSilence /\ [][NextSilence]_vars

\* the event loop runs a task whose timer is due or whose event is set, and
\* time passes
SpecSilenceFair ==
    /\ SpecSilence
    /\ WF_vars(MonitorPoll)
    /\ WF_vars(MonitorGraceEnd)
    /\ WF_vars(Tick)

\* ---- the silence monitor against a client that goes on sending audio,
\* loud or quiet, at any time
StreamFrames ==
    { [pcm |-> << 100, -139 >>, odd |-> FALSE],
      [pcm |-> << 120, -120 >>, odd |-> FALSE] }

NextStream ==
    \/ \E f \in StreamFrames : ReceiveAudio(f, MaxTime, MaxStreamFrames)
    \/ MonitorPoll
    \/ MonitorGraceEnd
    \/ HcStep("monitor", {EmptyDict})
    \/ Tick

SpecStream == InitSilence /\ [][NextStream]_vars

\* ---- a completion whose extraction falls back (the backend is not
\* available or its answer does not parse: ai_service.py:593-598, 650-656),
\* beside the tool calls and the texts of the backend
FallbackExtractions == { EmptyDict }

NextFallback ==
    \/ ReceiveManualComplete
    \/ GeminiText(<< "Hello" >>)
    \/ \E args \in SessionSaveFieldArgs : GeminiSaveField(args, FALSE)
    \/ HcStep("client", FallbackExtractions)

\* the awaits of handle_completion return
SpecFallback ==
    /\ InitSilence
    /\ [][NextFallback]_vars
    /\ WF_vars(HcStep("client", FallbackExtractions))

\* ---- the backend receiver on responses it has to tolerate, among
\* save_field calls
NextDecode ==
    \/ \E r \in DecodeResponses : GeminiDecode(r)
    \/ \E args \in SessionSaveFieldArgs : GeminiSaveField(args, TRUE)

SpecDecode == Init /\ [][NextDecode]_vars

\* ---- the completion when the record cannot be written
NextPersist ==
    \/ ReceiveManualComplete
    \/ GeminiText(<< "Hello" >>)
    \/ \E args \in SessionSaveFieldArgs : GeminiSaveField(args, FALSE)
    \/ HcStep("client", FallbackExtractions)
    \/ HcMarkFails("client")

SpecPersist == InitSilence /\ [][NextPersist]_vars

\* ---- the session record: its start, its field counter, its completion
\* by a live session, with a clock
RecordValues == {NoneVal, "7"}

InitRecordPage ==
    /\ InitConsumer
    /\ InitRecord
    /\ InitStreaming
    /\ InitNoSign
    /\ db_status \in {"pending", "active", "expired", "error"}
    /\ InitStarted
    /\ callback_url = NoneVal

NextRecord ==
    \/ SessionInterface
    \/ MarkStarted
    \/ \E k \in CarriedNames : \E v \in RecordValues : UpdateCollectedData(k, v)
    \/ \E fields \in SessionFinalizeFields : FinalizeSessionPublic(fields)
    \/ GeminiSaveField([field_name |-> "satisfaction", value |-> "8"], FALSE)
    \/ ReceiveManualComplete
    \/ HcStep("client", FallbackExtractions)
    \/ MonitorPoll
    \/ (now + TimeStep <= MaxRecordTime /\ Tick)

SpecRecord == InitRecordPage /\ [][NextRecord]_vars

\* ---- the text of the responses without audio
\* the parts of a model turn: with a text, with the attribute and None in
\* it, without the attribute
TextParts ==
    { [has_text |-> TRUE, text |-> << "all", "done" >>],
      [has_text |-> TRUE, text |-> NoneText],
      [has_text |-> FALSE, text |-> NoneText] }

TextResponses ==
    { [text |-> t, parts |-> ps, output_transcription |-> ot] :
        t \in {NoneText, << "Hello" >>},
        ps \in {<< >>} \cup { << p >> : p \in TextParts }
               \cup { << p, q >> : p \in TextParts, q \in TextParts },
        ot \in {NoneText, << "Thank", "you" >>} }

NextTranscript ==
    \/ \E r \in TextResponses : GeminiResponse(r)
    \/ HcStep("gemini", FallbackExtractions)

SpecTranscript == Init /\ [][NextTranscript]_vars

\* ---- the two audio queues between the client and the backend
QueueFrames ==
    { [pcm |-> << 100, -139 >>, odd |-> FALSE],
      [pcm |-> << 120, -120 >>, odd |-> FALSE] }

NextAudio ==
    \/ \E f \in QueueFrames : ReceiveAudio(f, 0, MaxQueueFrames)
    \/ ClientPutResume
    \/ SendRealtime
    \/ GeminiAudio(MaxQueueChunks)
    \/ GeminiTurnComplete
    \/ SendAudioToBrowser

SpecAudio == InitSilence /\ [][NextAudio]_vars

\* ---- the queue to the backend when its sender can end
NextBackpressure ==
    \/ \E f \in QueueFrames : ReceiveAudio(f, 0, MaxQueueFrames)
    \/ ClientPutResume
    \/ SendRealtime
    \/ TaskFails(1, "send_realtime")
    \/ ReceiveManualComplete
    \/ HcStep("client", FallbackExtractions)

\* the event loop runs a task that is ready: the sender whose get() can
\* return, the handler whose put() can go through, the completion's awaits
SpecBackpressure ==
    /\ InitSilence
    /\ [][NextBackpressure]_vars
    /\ WF_vars(SendRealtime)
    /\ WF_vars(ClientPutResume)
    /\ WF_vars(HcStep("client", FallbackExtractions))

\* ---- the lifecycle of the connections to one session
InitConnect ==
    /\ InitConsumer
    /\ InitRecord
    /\ InitNoSign
    /\ conn = [c \in Conns |-> NoConn]
    /\ db_record \in {"present", "missing", "expired", "unreadable"}
    /\ db_status \in {"pending", "active", "completed"}
    /\ InitStarted
    /\ genai_available \in BOOLEAN
    /\ callback_url = NoneVal

NextConnect ==
    \E c \in Conns :
        \/ Connect(c)
        \/ \E ok \in BOOLEAN : RunLiveApiStart(c, ok)
        \/ \E t \in IOTasks : TaskFails(c, t)
        \/ MonitorReturns(c)
        \/ MonitorRaises(c)
        \/ GroupExit(c)
        \/ Disconnect(c)
        \/ MainTaskCancelled(c)

SpecConnect == InitConnect /\ [][NextConnect]_vars

\* ---- the delivery of a completed session's webhook
InitWebhook ==
    /\ InitConsumer
    /\ InitRecord
    /\ InitStreaming
    /\ InitNoSign
    /\ db_status = "completed"
    /\ InitStarted
    /\ callback_url = "https://hook.example/cb"

NextWebhook ==
    \/ RetryWebhook
    \/ \E msg \in celery_queue : \E resp \in Responses : RunSendWebhook(msg, resp)

SpecWebhook == InitWebhook /\ [][NextWebhook]_vars

\* ---- the signing of payloads and the receiver's verification
NextSignature ==
    \/ \E payload \in Payloads : \E secret \in Secrets :
          GenerateSignature(payload, secret)
    \/ \E payload \in Payloads : \E signature \in Signatures :
          \E secret \in Secrets : VerifyWebhook(payload, signature, secret)

SpecSignature == InitWebhook /\ [][NextSignature]_vars

\* ---- a session completing while the webhook of its completion is
\* delivered: the retry endpoint enqueues the task as soon as the session is
\* persisted as completed, and the worker runs beside the consumer
DeliverySaveFieldArgs == { [field_name |-> "satisfaction", value |-> "8"] }

DeliveryExtractions == { EmptyDict }

NextDelivery ==
    \/ ReceiveManualComplete
    \/ GeminiCompleteForm
    \/ \E args \in DeliverySaveFieldArgs : GeminiSaveField(args, FALSE)
    \/ \E t \in {"client", "gemini"} : HcStep(t, DeliveryExtractions)
    \/ RetryWebhook
    \/ \E msg \in celery_queue : \E resp \in Responses : RunSendWebhook(msg, resp)

SpecDelivery == InitSilence /\ [][NextDelivery]_vars

(***************************************************************************)
(* Properties                                                              *)
(***************************************************************************)
\* ---- the tool calls (SpecTools)
SaveFieldOnly == \A i \in DOMAIN call_log : call_log[i].name = "save_field"

\* the save_field calls of the log that carried the name n
NamedCalls(n) ==
    { i \in DOMAIN call_log :
        call_log[i].name = "save_field" /\ call_log[i].field = n }

LastCall(n) == CHOOSE i \in NamedCalls(n) : \A j \in NamedCalls(n) : j <= i

\* the field names the logged save_field calls carried (a call without a
\* name, or with an empty one, carries none)
LoggedNames ==
    { call_log[i].field : i \in { j \in DOMAIN call_log : call_log[j].name = "save_field" } }
        \ {NoneVal, EmptyStr}

\* C1: after any sequence of save_field calls and no other tool call,
\* collected_data has exactly the field names the calls carried, each mapped
\* to the value of the last call that carried it (last-write-wins).
C1_LastWriteWins ==
    SaveFieldOnly =>
        /\ DOMAIN collected_data = LoggedNames
        /\ \A n \in LoggedNames : collected_data[n] = call_log[LastCall(n)].value

\* two calls for the same field with different values have been handled
C1_Witness ==
    /\ Len(call_log) = 2
    /\ SaveFieldOnly
    /\ call_log[1].field = "satisfaction" /\ call_log[1].value = "7"
    /\ call_log[2].field = "satisfaction" /\ call_log[2].value = "8"
    /\ collected_data = [satisfaction |-> "8"]

\* C2: every key of collected_data, in memory and as persisted, is the name
\* of a field of the form's schema.
C2_KeysInSchema ==
    /\ DOMAIN collected_data \subseteq FieldNames
    /\ DOMAIN db_collected_data \subseteq FieldNames

\* the step handles a submit_form_summary call whose text is not valid JSON
InvalidSummaryHandled ==
    /\ Len(call_log') = Len(call_log) + 1
    /\ call_log'[Len(call_log')].name = "submit_form_summary"
    /\ call_log'[Len(call_log')].text \in InvalidJsonTexts

\* C3: a submit_form_summary call whose function_call_json_text is not valid
\* JSON leaves collected_data as it was, ends neither the backend receiver
\* nor the session (the receiver is at once ready for the next tool call),
\* and still signals that the summary was submitted.
C3_InvalidSummaryAbsorbed ==
    [][InvalidSummaryHandled =>
          /\ collected_data' = collected_data
          /\ gemini_task' = "running"
          /\ hc'["gemini"] = "idle"
          /\ summary_event']_vars

\* a field was saved, then a summary that is cut short was handled
C3_Witness ==
    /\ Len(call_log) = 2
    /\ call_log[1].name = "save_field"
    /\ call_log[2].name = "submit_form_summary"
    /\ call_log[2].text = << "{", "satisfaction", ":", "8" >>
    /\ collected_data = [satisfaction |-> "7"]
    /\ summary_event
    /\ GeminiFree

\* the step handles a submit_form_summary call
SummaryHandled ==
    /\ Len(call_log') = Len(call_log) + 1
    /\ call_log'[Len(call_log')].name = "submit_form_summary"

\* C24: a submit_form_summary call leaves every field that save_field has
\* set to a value with that value, whatever the summary carries for it.
C24_SummaryKeepsSavedFields ==
    [][SummaryHandled =>
          \A k \in DOMAIN saved :
              (/\ saved[k] # NoneVal
               /\ k \in DOMAIN collected_data
               /\ collected_data[k] = saved[k])
                 => collected_data'[k] = saved[k]]_vars

\* ---- the tolerant decoding (SpecDecode)
\* C27: among save_field calls, responses of unknown shape and tool calls
\* with an unknown name or with arguments that are no dict leave the
\* backend receiver running and collected_data what the save_field calls
\* made it.
C27_DecodeAbsorbs ==
    /\ gemini_task = "running"
    /\ collected_data = saved

\* ---- the silence monitor (SpecSilence)
\* the mean absolute amplitude of a frame's samples is at or above the
\* speech threshold
LoudFrame(f) ==
    /\ f.pcm # << >>
    /\ SumSeq([i \in DOMAIN f.pcm |-> Abs(f.pcm[i])]) >= SilenceThresholdAbs * Len(f.pcm)

\* C4: while no client audio frame with a mean absolute amplitude at or
\* above the speech threshold has been received, the silence monitor has not
\* set its triggered flag, is not in its grace wait and has invoked no
\* completion, however much time has passed.
C4_NoSpeechNoTrigger ==
    (\A i \in DOMAIN frames_received : ~LoudFrame(frames_received[i])) =>
        /\ ~silence_monitor_triggered
        /\ mon_pc = "sleep"
        /\ completions["monitor"] = 0

\* a quiet frame arrived, the detector took its time as the last sound, and
\* the session idled well past the timeout
C4_Witness ==
    /\ frames_received = << [pcm |-> << 100, -139 >>, odd |-> FALSE] >>
    /\ last_sound # NoTime
    /\ now - last_sound >= SilenceTimeoutMs + GraceMs + PollMs
    /\ ~silence_monitor_triggered

\* time since the detector's last sound
SinceSpeech == now - last_sound

NoAIAudio == last_ai_audio = NoTime

\* the step in which the monitor sets its one-shot flag
TriggerStep == ~silence_monitor_triggered /\ silence_monitor_triggered'

\* the step in which the monitor invokes handle_completion
MonitorCompletes == completions'["monitor"] = completions["monitor"] + 1

SinceAIAudio == now - last_ai_audio

\* C22: the monitor does not set its flag at a poll taken 1500 ms or less
\* after the backend's last audio chunk.
C22_NoTriggerWhileAISpeaks ==
    [][(TriggerStep /\ ~NoAIAudio) => SinceAIAudio > AIGapMs]_vars

\* the client's silence was long enough for two polls, and the monitor
\* triggered only at the first poll more than 1500 ms after the AI's chunk
C22_Witness ==
    /\ silence_monitor_triggered
    /\ mon_pc = "grace"
    /\ last_sound = 0
    /\ last_ai_audio = SilenceTimeoutMs - PollMs
    /\ now = last_ai_audio + AIGapMs + PollMs
    /\ grace_deadline = now + GraceMs

\* C23: the monitor, once triggered, waits for the summary for 2000 ms at
\* most and no longer than the summary takes to be submitted, then invokes
\* completion and has left its loop; it invokes completion once per
\* connection at most, and a triggered monitor does invoke it.
C23_TriggerCompletesOnce ==
    /\ [](completions["monitor"] <= 1)
    /\ [](mon_pc = "grace" =>
            /\ silence_monitor_triggered
            /\ completions["monitor"] = 0
            /\ now <= grace_deadline)
    /\ [][(mon_pc = "grace" /\ summary_event) => now' = now]_vars
    /\ [][MonitorCompletes =>
            /\ mon_pc = "grace"
            /\ summary_event \/ now = grace_deadline
            /\ mon_pc' = "done"]_vars
    /\ [][mon_pc = "done" => (mon_pc' = "done" /\ ~MonitorCompletes)]_vars
    /\ (mon_pc = "grace" /\ grace_deadline <= MaxTime) ~> (completions["monitor"] = 1)

\* the summary was submitted 1000 ms into the wait, the monitor invoked
\* completion at that time, and the completion has run to its end
C23_Witness ==
    /\ summary_event
    /\ mon_pc = "done"
    /\ completions["monitor"] = 1
    /\ hc["monitor"] = "idle"
    /\ sent_completed = 1
    /\ now = grace_deadline - GraceMs \div 2

\* ---- the completion (Spec)
\* the step in which receive handles a manual_complete message
ManualCompleteHandled ==
    /\ control_handled' = control_handled + 1
    /\ last_control' = "manual_complete"

\* C6: the step that handles a manual_complete message enters the completion
\* procedure in that very step, whether or not speech was ever detected.
C6_ManualCompleteStartsCompletion ==
    [][ManualCompleteHandled =>
          /\ hc["client"] = "idle"
          /\ hc'["client"] = "save_conversation"
          /\ completions'["client"] = completions["client"] + 1]_vars

\* manual_complete was handled in a session that never heard speech, and the
\* completion it started has persisted the session as completed
C6_Witness ==
    /\ last_control = "manual_complete"
    /\ ~speech_detected
    /\ frames_received = << >>
    /\ completions = [t \in Tasks |-> IF t = "client" THEN 1 ELSE 0]
    /\ hc["client"] = "send"
    /\ db_status = "completed"

\* C7: when a completion persists the session as completed, the persisted
\* collected_data holds, for every field save_field saved with a non-null
\* value, that value, whatever was persisted for the session before.
C7_SavedValuesPersisted ==
    [][db_status # "completed" /\ db_status' = "completed" =>
          \A k \in DOMAIN saved :
              saved[k] # NoneVal =>
                  /\ k \in DOMAIN db_collected_data'
                  /\ db_collected_data'[k] = saved[k]]_vars

\* C10: once a completion has run to its end in a session whose form has a
\* callback URL, a send_webhook task has been enqueued.
C10_WebhookEnqueued ==
    (/\ callback_url # NoneVal
     /\ db_status = "completed"
     /\ \E t \in Tasks : completions[t] >= 1 /\ hc[t] = "idle")
        => triggers >= 1

\* the completions that went as far as persisting the session as completed
MarkedCompletions ==
    Cardinality({ t \in Tasks : completions[t] >= 1 /\ hc[t] \in {"send", "webhook"} })

\* C11: whatever completion triggers arrive and however they interleave, the
\* effects of completion happen at most once: the 'completed' event is sent
\* at most once, and at most one completion persists the session as
\* completed.
C11_CompletionOnce ==
    /\ sent_completed <= 1
    /\ MarkedCompletions <= 1

\* the completion procedure was entered by task t and has returned
CompletionReturned(t) == completions[t] >= 1 /\ hc[t] = "idle"

\* C15: when the completion procedure has returned, raising or not, the
\* client has been sent a terminal event ('completed'; the consumer sends
\* no 'error' event once it is streaming).
C15_TerminalEventSent ==
    \A t \in Tasks : CompletionReturned(t) => sent_completed >= 1

\* the step is the merge of a completion: it produces the final fields
MergeStep == \E t \in Tasks : hc[t] = "extract" /\ hc'[t] = "mark"

\* a tool call captured a value for field k
Captured(k) ==
    /\ k \in DOMAIN collected_data
    /\ collected_data[k] # NoneVal
    /\ collected_data[k] # EmptyStr

\* C25 (as the code has it): in the final fields every field for which a
\* tool call captured a value other than None and '' has that value; any
\* other field has the extraction's value if the extraction has the field,
\* and else is a field collected_data holds with None or '', kept when the
\* extraction gave nothing at all.
C25_CapturedValuesPrecede ==
    [][MergeStep =>
          LET final == last_merge'[1].fields
              ef == last_merge'[1].extraction
          IN  /\ \A k \in DOMAIN collected_data :
                    Captured(k) => (k \in DOMAIN final /\ final[k] = collected_data[k])
              /\ \A k \in DOMAIN final :
                    ~Captured(k) =>
                        IF k \in DOMAIN ef
                        THEN final[k] = ef[k]
                        ELSE /\ ef = EmptyDict
                             /\ k \in DOMAIN collected_data
                             /\ final[k] = collected_data[k]]_vars

\* a completion merged an extraction that differs from the captured value
\* of a field, and the captured value is the final one
C25_Witness ==
    /\ Len(last_merge) = 1
    /\ last_merge[1].extraction = [satisfaction |-> "7"]
    /\ last_merge[1].fields = [satisfaction |-> "8"]
    /\ saved = [satisfaction |-> "8"]
    /\ hc["client"] = "mark"

\* C25 (as stated): in the final fields every key of collected_data has the
\* value collected_data holds for it.
C25_EveryCollectedKeyPrecedes ==
    [][MergeStep =>
          \A k \in DOMAIN collected_data :
              /\ k \in DOMAIN last_merge'[1].fields
              /\ last_merge'[1].fields[k] = collected_data[k]]_vars

\* ---- the completion with the fallback extraction (SpecFallback)
\* C26: when the extraction falls back, the final fields are collected_data
\* as the tool calls left it, the summary is not empty, and the completion
\* goes on to its end: the session is marked completed and the 'completed'
\* event is sent.
C26_FallbackCompletes ==
    /\ [][MergeStep =>
            /\ last_merge'[1].extraction = EmptyDict
            /\ last_merge'[1].fields = collected_data
            /\ collected_data' = collected_data
            /\ last_merge'[1].summary # << >>]_vars
    /\ [](hc["client"] \in {"send", "webhook"} => db_status = "completed")
    /\ [](hc["client"] = "webhook" => sent_completed >= 1)
    /\ (hc["client"] # "idle") ~>
          (/\ hc["client"] = "idle"
           /\ db_status = "completed"
           /\ sent_completed >= 1)

\* the completion ended after a fallback that merged a field saved with a
\* value and one saved with None
C26_Witness ==
    /\ hc["client"] = "idle"
    /\ sent_completed = 1
    /\ db_status = "completed"
    /\ Len(last_merge) = 1
    /\ last_merge[1].extraction = EmptyDict
    /\ last_merge[1].fields = [satisfaction |-> NoneVal, nickname |-> "7"]
    /\ last_merge[1].summary = << "nickname", ": ", "7" >>
    /\ db_collected_data = [satisfaction |-> NoneVal, nickname |-> "7"]

\* ---- the webhook delivery (SpecWebhook)
\* the WebhookLog records of a trigger
LogsOf(t) == { i \in DOMAIN webhook_logs : webhook_logs[i].trigger = t }

\* the delivery of a trigger is over without success
GaveUp(t) == task_outcome[t] \in {"failed", "raised"}

\* C8: a trigger whose HTTP attempts all failed has had at most 3 of them,
\* and its task ends by reporting the failure, with no further retry.
C8_AtMostThreeAttempts ==
    \A t \in TriggerIds :
        (\A i \in LogsOf(t) : ~webhook_logs[i].is_success) =>
            /\ http_attempts[t] <= WebhookRetryAttempts
            /\ GaveUp(t) => task_outcome[t] = "failed"

\* C9: every HTTP attempt appends exactly one WebhookLog record, so that a
\* trigger whose attempts were all answered 500 leaves exactly 3 records,
\* none a success, and webhook_sent false.
C9_OneLogPerAttempt ==
    \A t \in TriggerIds :
        /\ Cardinality(LogsOf(t)) = http_attempts[t]
        /\ (GaveUp(t) /\ \A i \in LogsOf(t) : webhook_logs[i].status_code \in {"500", NoneVal})
              => /\ Cardinality(LogsOf(t)) = 3
                 /\ \A i \in LogsOf(t) : ~webhook_logs[i].is_success
                 /\ ~webhook_sent


\* ---- the lifecycle of the connections (SpecConnect)
\* the session cannot be served: no record, an expired one, or a completed one
NotServable ==
    \/ db_record \in {"missing", "expired"}
    \/ db_status = "completed"

\* nothing of the streaming machinery of connection c exists
NothingStarted(c) ==
    /\ conn[c].main_task = "none"
    /\ conn[c].backend = "none"
    /\ conn[c].closes = 0
    /\ ~conn[c].queues
    /\ \A t \in StreamTasks : conn[c].tasks[t] = "none"

\* C12: a connection made for a session id that does not exist, is expired
\* or is already completed has been sent one error event, and has no
\* backend connection, no audio queues and no streaming task, then and
\* ever after.
C12_InvalidSessionRefused ==
    \A c \in Conns :
        (conn[c].stage # "none" /\ NotServable) =>
            /\ conn[c].stage = "refused"
            /\ conn[c].errors = 1
            /\ NothingStarted(c)

C12_Witness ==
    /\ db_record = "present"
    /\ db_status = "completed"
    /\ genai_available
    /\ conn[1].stage = "refused"
    /\ conn[1].disconnects = 1

\* the connections that are streaming for the session
Streaming == { c \in Conns : conn[c].stage = "streaming" }

\* C13: at most one connection is streaming for the session at any time.
C13_SingleStreamer ==
    Cardinality(Streaming) <= 1

\* C14: once a streaming task of a connection has failed with an
\* exception, none of its tasks is running, its backend connection is
\* closed and the client has been sent one error event.
C14_TaskFailureEndsSession ==
    \A c \in Conns :
        conn[c].died # {} =>
            /\ \A t \in StreamTasks : conn[c].tasks[t] # "running"
            /\ conn[c].backend = "closed"
            /\ conn[c].errors = 1

\* a step is a disconnect of connection c
DisconnectStep(c) == conn'[c].disconnects = conn[c].disconnects + 1

\* a step is a connect of connection c
ConnectStep(c) == conn[c].stage = "none" /\ conn'[c].stage # "none"

\* C16: a cancelled main task leaves no streaming task running and the
\* backend connection closed, which is closed once at most and once if it
\* was opened; a disconnect leaves the persisted status alone; a repeated
\* disconnect changes nothing; and after a disconnect a connect for the
\* session, unexpired and not completed, passes validation.
C16_DisconnectCancelsOnce ==
    /\ [](\A c \in Conns :
            /\ conn[c].closes <= 1
            /\ conn[c].main_task = "cancelled" =>
                 /\ \A t \in StreamTasks : conn[c].tasks[t] # "running"
                 /\ conn[c].backend # "open"
                 /\ conn[c].queues => conn[c].closes = 1)
    /\ [][\A c \in Conns :
            /\ DisconnectStep(c) =>
                 /\ db_status' = db_status
                 /\ conn[c].main_task = "running" => conn'[c].main_task = "cancelling"
                 /\ conn[c].disconnects >= 1 =>
                      conn' = [conn EXCEPT ![c].disconnects = @ + 1]
            /\ (/\ ConnectStep(c)
                /\ \E d \in Conns \ {c} : conn[d].main_task = "cancelled"
                /\ genai_available
                /\ db_record = "present"
                /\ db_status # "completed") => conn'[c].stage = "connecting"]_vars

C16_Witness ==
    /\ conn[1].main_task = "cancelled"
    /\ conn[1].closes = 1
    /\ conn[1].disconnects = 2
    /\ conn[2].stage = "streaming"

\* the step is an execution of the task for trigger t that was answered 200
AnsweredBelow400(t) ==
    /\ http_attempts'[t] = http_attempts[t] + 1
    /\ Len(webhook_logs') > Len(webhook_logs)
    /\ webhook_logs'[Len(webhook_logs) + 1].status_code = "200"

\* C18: an attempt answered with a status below 400 writes exactly one
\* WebhookLog, with is_success true, sets webhook_sent with the response
\* code and the send time, and leaves no message of its trigger to run.
C18_SuccessRecordedOnce ==
    [][\A t \in TriggerIds :
         AnsweredBelow400(t) =>
            /\ Len(webhook_logs') = Len(webhook_logs) + 1
            /\ webhook_logs'[Len(webhook_logs')].trigger = t
            /\ webhook_logs'[Len(webhook_logs')].is_success
            /\ webhook_sent'
            /\ webhook_response_code' = "200"
            /\ webhook_sent_at' = now
            /\ \A msg \in celery_queue' : msg.trigger # t]_vars

\* a trigger succeeded at its third attempt
C18_Witness ==
    /\ task_outcome[1] = "success"
    /\ http_attempts[1] = 3
    /\ webhook_sent
    /\ webhook_sent_at = now
    /\ celery_queue = {}

\* C19: the retry that follows the n-th failed attempt of a trigger is
\* scheduled 300 * 3^(n-1) seconds later.
C19_BackoffProgression ==
    \A msg \in celery_queue :
        msg.retries >= 1 => msg.countdown = BackoffBase * (3 ^ (msg.retries - 1))

\* ---- the delivery beside the completion (SpecDelivery)
\* the step is an execution of the delivery task
DeliveryStep == \E t \in TriggerIds : http_attempts'[t] = http_attempts[t] + 1

\* the step is the call of trigger_webhook that ends handle_completion
TriggerWebhookStep(t) == hc[t] = "webhook" /\ hc'[t] # "webhook"

\* C17: an execution of the delivery task, whatever its outcome, leaves the
\* session's status, completed_at and collected_data, the completion
\* procedures and the 'completed' events sent as they were; and the call
\* of trigger_webhook returns into handle_completion, which ends, with the
\* same left as it was.
C17_DeliveryLeavesCompletion ==
    [][/\ DeliveryStep =>
            UNCHANGED << db_status, db_completed_at, db_collected_data,
                         collected_data, hc, sent_completed >>
       /\ \A t \in Tasks :
            TriggerWebhookStep(t) =>
               /\ hc'[t] = "idle"
               /\ sent_completed >= 1
               /\ UNCHANGED << db_status, db_completed_at, db_collected_data,
                               sent_completed >>]_vars

\* the delivery gave up on its fourth failure while a second completion
\* was under way, the first having sent its 'completed' event
C17_Witness ==
    /\ task_outcome[1] = "raised"
    /\ http_attempts[1] = 4
    /\ db_status = "completed"
    /\ sent_completed = 1
    /\ hc["client"] = "idle"
    /\ hc["gemini"] = "send"

\* ---- the signatures (SpecSignature)
\* C20: two calls of generate_webhook_signature with equal payloads, in
\* whatever order their keys were inserted, and equal secrets returned the
\* same signature, of the form sha256=<hex>; and verify_webhook accepts a
\* signature exactly when it is the one generate_webhook_signature
\* returned for an equal payload and the same secret.
C20_SignatureDeterministicAndVerified ==
    /\ \A i, j \in DOMAIN sign_call :
          (/\ DictEqual(sign_call[i].payload, sign_call[j].payload)
           /\ sign_call[i].secret = sign_call[j].secret)
             => sign_call[i].signature = sign_call[j].signature
    /\ \A i \in DOMAIN sign_call :
          /\ Len(sign_call[i].signature) = 2
          /\ sign_call[i].signature[1] = "sha256="
    /\ \A v \in DOMAIN verify_result : \A i \in DOMAIN sign_call :
          (/\ DictEqual(sign_call[i].payload, verify_result[v].payload)
           /\ sign_call[i].secret = verify_result[v].secret)
             => (verify_result[v].accepted
                   <=> verify_result[v].signature = sign_call[i].signature)

\* the same payload was signed twice, its keys inserted in different
\* orders, and the receiver, holding it in the second order, accepted the
\* signature of the first
C20_Witness ==
    /\ Len(sign_call) = 2
    /\ sign_call[1].payload # sign_call[2].payload
    /\ DictEqual(sign_call[1].payload, sign_call[2].payload)
    /\ sign_call[1].secret = sign_call[2].secret
    /\ Len(verify_result) = 1
    /\ verify_result[1].payload = sign_call[2].payload
    /\ verify_result[1].signature = sign_call[1].signature
    /\ verify_result[1].secret = sign_call[1].secret
    /\ verify_result[1].accepted


\* ---- the monitor and a client that goes on sending audio (SpecStream)
\* time since the last client audio frame, of whatever amplitude
SinceFrame == now - last_frame_at

\* C21: the monitor sets its flag only when 6500 ms have passed both since
\* the last frame detected as speech and since the last client audio frame
\* of any amplitude.
C21_QuietAudioHoldsTrigger ==
    [][TriggerStep =>
          /\ SinceSpeech >= SilenceTimeoutMs
          /\ SinceFrame >= SilenceTimeoutMs]_vars

\* ---- the order and the bound of the audio queues (SpecAudio)
\* s is the beginning of t
IsPrefix(s, t) ==
    /\ Len(s) <= Len(t)
    /\ \A i \in 1..Len(s) : s[i] = t[i]

\* the numbers of s grow strictly: nothing twice, nothing out of order
StrictlyIncreasing(s) ==
    \A i, j \in 1..Len(s) : i < j => s[i] < s[j]

\* C28: the frames sent to the backend are, in order, the first of the
\* client frames received, and the chunks sent to the client are, in the
\* order of their arrival and without repetition, some of the chunks the
\* backend produced.
C28_ForwardedInArrivalOrder ==
    /\ IsPrefix(sent_to_backend, frames_received)
    /\ StrictlyIncreasing(sent_to_browser)
    /\ \A i \in 1..Len(sent_to_browser) : sent_to_browser[i] \in 1..ai_chunks

\* two different frames were forwarded to the backend, and the client got
\* the first and the third chunk, the second having been dropped at the end
\* of a turn
C28_Witness ==
    /\ Len(sent_to_backend) >= 2
    /\ sent_to_backend[1] # sent_to_backend[2]
    /\ sent_to_browser = << 1, 3 >>

\* the frames the handler has received: those sent, those queued, and the
\* one a suspended put holds
FramesInFlight ==
    sent_to_backend \o audio_out_queue
        \o (IF client_pc = "put" THEN << pending_frame >> ELSE << >>)

\* C29: the queue to the backend holds at most 5 frames; the handler is
\* suspended in its put only while the queue holds 5; and every frame
\* received is sent, queued or held by the suspended put, once and in place.
C29_QueueBoundedNothingLost ==
    /\ [](Len(audio_out_queue) <= OutQueueMax)
    /\ [][(client_pc = "idle" /\ client_pc' = "put")
              => Len(audio_out_queue) = OutQueueMax]_vars
    /\ [][(client_pc = "put" /\ client_pc' = "put")
              => Len(audio_out_queue') <= Len(audio_out_queue)]_vars
    /\ [](FramesInFlight = frames_received)

\* the queue holds 5 frames and the handler, suspended in its put, holds a
\* sixth, different from the last one queued
C29_Witness ==
    /\ client_pc = "put"
    /\ Len(audio_out_queue) = OutQueueMax
    /\ pending_frame # audio_out_queue[OutQueueMax]
    /\ Len(frames_received) = OutQueueMax + 1 + Len(sent_to_backend)

\* ---- the session after its completion (Spec)
\* the completion procedure has run to its end: some task entered it, sent
\* the 'completed' event and returned
CompletionDone ==
    /\ sent_completed >= 1
    /\ \E t \in Tasks : CompletionReturned(t)

\* C30: once the completion procedure has run, the session is closed: no
\* tool call changes the collected data any more and no client frame is
\* forwarded to the backend.
C30_ClosedAfterCompletion ==
    [][CompletionDone =>
          /\ collected_data' = collected_data
          /\ sent_to_backend' = sent_to_backend]_vars

\* ---- the record of a session that is over (Spec)
\* the persisted status says the session is over
RecordOver == db_status \in {"completed", "expired"}

\* C31: once the persisted status is completed or expired, no step changes
\* the persisted collected_data, conversation_history, status or
\* completed_at.
C31_RecordImmutableOnceOver ==
    [][RecordOver =>
          /\ db_collected_data' = db_collected_data
          /\ db_conversation_history' = db_conversation_history
          /\ db_status' = db_status
          /\ db_completed_at' = db_completed_at]_vars

\* ---- what starts a completion (Spec)
\* the step in which the receiver keeps an assistant transcript
AssistantTranscriptStep ==
    /\ Len(conversation_history') = Len(conversation_history) + 1
    /\ conversation_history'[Len(conversation_history')].role = "assistant"

\* C32: the completion procedure is entered only by the handling of a
\* manual_complete message, by a complete_form tool call or by the silence
\* monitor: the step that handles an assistant transcript, whatever its
\* wording, enters no completion.
C32_TranscriptNeverCompletes ==
    [][AssistantTranscriptStep => completions' = completions]_vars

\* ---- the record of a session (SpecRecord)
\* C33: a session persisted as completed that has a started_at has the whole
\* seconds between started_at and completed_at as its duration_seconds.
C33_DurationRecorded ==
    (db_status = "completed" /\ db_started_at # NoTime) =>
        db_duration_seconds = (db_completed_at - db_started_at) \div 1000

\* ---- the text taken from a response (SpecTranscript)
\* the text of the first part of the model turn that bears a text
FirstPartText(r) ==
    LET bearing == { i \in DOMAIN r.parts :
                       r.parts[i].has_text /\ TextTruthy(r.parts[i].text) }
    IN  IF bearing = {} THEN NoneText
        ELSE r.parts[CHOOSE i \in bearing : \A j \in bearing : i <= j].text

\* the text by the stated priority: top-level text, then transcription,
\* then first text-bearing part
PriorityText(r) ==
    IF TextTruthy(r.text) THEN r.text
    ELSE IF TextTruthy(r.output_transcription) THEN r.output_transcription
    ELSE FirstPartText(r)

\* C34: the text taken from a response without audio is the top-level text
\* if there is one, otherwise the transcription, otherwise the text of the
\* first text-bearing part; it is never an empty text.
C34_TranscriptPriority ==
    \A i \in DOMAIN last_response :
        /\ last_response[i].text_content = PriorityText(last_response[i].response)
        /\ last_response[i].text_content # EmptyText

\* ---- the field counter of the record (SpecRecord)
\* C35: in every persisted state fields_completed is the number of values
\* of collected_data that are not None, and the completion percentage is
\* the whole part of 100 times that number over the number of form fields.
C35_FieldCounterMatches ==
    /\ db_fields_completed = NonNullCount(db_collected_data)
    /\ get_completion_percentage(db_fields_completed, TotalFields) =
           (100 * NonNullCount(db_collected_data)) \div TotalFields

\* ---- the start of a session (SpecRecord)
\* the step is a call of mark_started
MarkStartedStep == mark_started_calls' = mark_started_calls + 1

\* C36: a call of mark_started on a pending session makes it active and
\* sets started_at to the time of the call; on a session of any other
\* status it changes neither the status nor started_at.
C36_MarkStartedOnlyFromPending ==
    [][MarkStartedStep =>
          IF db_status = "pending"
          THEN /\ db_status' = "active"
               /\ db_started_at' = now
          ELSE /\ db_status' = db_status
               /\ db_started_at' = db_started_at]_vars

\* mark_started was called twice on a session that was pending, the second
\* time when the clock had moved on, and the session has the first start
C36_Witness ==
    /\ mark_started_calls = 2
    /\ db_status = "active"
    /\ db_started_at = TimeStep
    /\ now > db_started_at

\* ---- the handler suspended on the full queue (SpecBackpressure)
\* C37: the receive handler does not stay suspended for ever in the put of
\* an audio frame, also when send_realtime has ended: its put goes through
\* and the handler is free for the control messages behind the frame.
C37_HandlerNotBlockedForEver ==
    (client_pc = "put") ~> (client_pc = "idle")

\* ---- the completion when the record cannot be written (SpecPersist)
\* C38: the 'completed' event is sent, and the webhook triggered, only for
\* a session whose status completed was persisted.
C38_CompletedOnlyIfPersisted ==
    (sent_completed >= 1 \/ triggers >= 1) => db_status = "completed"

\* ---- the attempt number of the delivery task (SpecWebhook)
\* C39: the n-th execution for a trigger runs with attempt_number n and
\* writes it in its WebhookLog: a message waiting for its execution after r
\* retries carries attempt_number r + 1, and the logs of a trigger that was
\* executed n times carry the attempt numbers 1 to n.
C39_AttemptNumberCounts ==
    /\ \A msg \in celery_queue : msg.attempt_number = msg.retries + 1
    /\ \A t \in TriggerIds :
          { webhook_logs[i].attempt_number : i \in LogsOf(t) }
              = 1..http_attempts[t]

====
